---- MODULE Spec2Model ----
(***************************************************************************)
(* Vocab Swipe: the word-selection and progress-tracking engine of the     *)
(* three "sources" front ends.                                             *)
(*   variant "local"  : app-sources.js         (localStorage sources,      *)
(*                      sequential policy, learned + skipped, history      *)
(*                      unlearn / unskip)                                  *)
(*   variant "server" : app-sources-server.js  (server sources, sequential *)
(*                      policy, learned + skipped, marking in the swipe    *)
(*                      timer)                                             *)
(*   variant "mobile" : app-sources-mobile.js  (server sources, random     *)
(*                      policy, learned only)                              *)
(* A word entry is modelled by its `word` field (the term), the only field *)
(* the engine reads.  One page runs one script, so `variant` is fixed by   *)
(* Init.                                                                   *)
(***************************************************************************)
EXTENDS Integers, Sequences, FiniteSets, TLC

VARIABLES
    variant,        \* which script the page loaded
    booted,         \* FALSE until init() has run
    sources,        \* let sources = {}        name -> word list
    progress,       \* let progress = {}       name -> {learned, skipped, currentIndex}
    learnedWords,   \* let learnedWords = {}   name -> learned list (mobile)
    currentSource,  \* let currentSource = '' (currentSourceName in mobile)
    currentWord,    \* let currentWord = null
    screen,         \* which of loadingScreen / mainCard / completion / emptyState shows
    timers,         \* pending setTimeout callbacks, in expiry order
    lastCall,       \* the handler that ran last, what it was applied to, and
                    \* whether that term was learned / skipped and that source
                    \* Completed when it started
    lastSelect,     \* `const word = get...Word()` of the last loadNextWord call
    selectorState,  \* per source: Selecting / Completed / Unmarked (Completed,
                    \* then an entry was taken out of learned by an unmark)
    files,          \* server.js: the sources/ folder, file name -> content
    response,       \* server.js: the request served last and its response
    storage,        \* localStorage of the page, one field per STORAGE key
    storageFull,    \* TRUE while localStorage.setItem throws (quota exceeded)
    requests,       \* App.jsx: the loadSpecificWord calls awaiting a response
    appWord,        \* App.jsx: const [word, setWord], and the call that set it
    related,        \* App.jsx: const [related, setRelated] / [syns, setSyns]
    issued,         \* App.jsx: how many load calls were made
    seen,           \* App.jsx: const [seen, setSeen], a Set of lower-cased words
    isLoading,      \* app.js: let isLoading = false
    startX,         \* swipe gesture closure: let startX = 0
    currentX,       \* swipe gesture closure: let currentX = 0
    isDragging,     \* swipe gesture closure: let isDragging = false
    swipedWords     \* per pending timer: the word that was displayed when a
                    \* touchend of app-sources-server.js set it, Null for
                    \* every other timer (history, read by no handler)

pageVars == <<variant, booted, sources, progress, learnedWords, currentSource,
              currentWord, screen, timers, lastCall, lastSelect, selectorState>>
storeVars == <<files, response>>
persistVars == <<storage, storageFull>>
loadVars == <<requests, appWord, related, issued, seen, isLoading>>
gestureVars == <<startX, currentX, isDragging, swipedWords>>
vars == <<variant, booted, sources, progress, learnedWords, currentSource,
          currentWord, screen, timers, lastCall, lastSelect, selectorState,
          files, response, storage, storageFull, requests, appWord, related, issued,
          seen, isLoading, startX, currentX, isDragging, swipedWords>>

(* ------------------------------ bounds -------------------------------- *)
MaxWords == 2       \* longest word list of a source
MaxTimers == 2      \* most setTimeout callbacks pending at once
RandomGrain == 4    \* Math.random() is drawn from {0, 1/4, 2/4, 3/4}

(* ----------------------------- constants ------------------------------ *)
Null == "<null>"            \* JS null / undefined
NoSource == ""              \* currentSource = ''
Variants == {"local", "server", "mobile"}
SourceOrder == <<"A", "B">> \* Object.keys(sources) order
SourceNames == {SourceOrder[i] : i \in 1..Len(SourceOrder)}
MasterWords == <<"red", "blue", "Red", "sky">>    \* source A holds a prefix
OtherWords == <<"Red">>                           \* source B
Terms == {"red", "Red", "blue", "sky"}

NoFiles == [f \in {} |-> <<>>]            \* an empty sources/ folder
NoWord == [text |-> Null, call |-> 0]     \* useState(null) of App.jsx

\* App.jsx before any loadSpecificWord call
LoadIdle ==
    /\ requests = {} /\ appWord = NoWord /\ related = NoWord /\ issued = 0 /\ seen = {}
    /\ isLoading = FALSE

\* no touch is in progress and none has ended: the closure's initial values
GestureIdle == startX = 0 /\ currentX = 0 /\ isDragging = FALSE /\ swipedWords = <<>>
NoResponse == [op |-> "none"]             \* no request served yet

\* String.prototype.toLowerCase on the terms of the model
toLowerCase(t) == IF t = "Red" THEN "red" ELSE t

(* --------------------------- pure helpers ------------------------------ *)
\* arr.some(w => w.toLowerCase() === wordKey)
someLower(arr, wordKey) == \E i \in 1..Len(arr) : toLowerCase(arr[i]) = wordKey

\* arr.filter(w => w.toLowerCase() !== wordKey)
filterLower(arr, wordKey) == SelectSeq(arr, LAMBDA w : toLowerCase(w) # wordKey)

\* { learned: [], skipped: [], currentIndex: 0 }
EmptyProgress == [learned |-> <<>>, skipped |-> <<>>, currentIndex |-> 0]

\* obj[key] = value
Put(obj, key, value) == [k \in DOMAIN obj \cup {key} |-> IF k = key THEN value ELSE obj[k]]

\* delete obj[key]
Delete(obj, key) == [k \in DOMAIN obj \ {key} |-> obj[k]]

\* Object.keys(sources)[0], or NoSource
firstKey(obj) ==
    IF DOMAIN obj = {} THEN NoSource
    ELSE SourceOrder[CHOOSE i \in 1..Len(SourceOrder) :
                        /\ SourceOrder[i] \in DOMAIN obj
                        /\ \A j \in 1..(i-1) : SourceOrder[j] \notin DOMAIN obj]

\* sources[sourceName]?.words || []
getSourceWords(srcs, sourceName) ==
    IF sourceName \in DOMAIN srcs THEN srcs[sourceName] ELSE <<>>

\* getCurrentSourceProgress() !== null
hasCurrentSourceProgress(prog, cur) == cur # NoSource /\ cur \in DOMAIN prog

(* ------------------ progress tracker (local, server) ------------------- *)
\* initSourceProgress(sourceName); selectSource of app-sources.js inlines it
initSourceProgress_alwaysCreates(prog, sourceName) == Put(prog, sourceName, EmptyProgress)

initSourceProgress(prog, sourceName) ==
    IF sourceName \in DOMAIN prog THEN prog
    ELSE Put(prog, sourceName, EmptyProgress)

\* markWordAsLearned comparing with word.word instead of wordKey
markWordAsLearned_caseSensitive(prog, cur, word) ==
    IF ~hasCurrentSourceProgress(prog, cur) THEN prog
    ELSE LET p == prog[cur]
             skipped == filterLower(p.skipped, toLowerCase(word))
             learned == IF ~(\E i \in 1..Len(p.learned) : p.learned[i] = word)
                        THEN Append(p.learned, word)
                        ELSE p.learned
         IN  [prog EXCEPT ![cur] = [p EXCEPT !.skipped = skipped, !.learned = learned]]

\* markWordAsLearned that leaves prog.skipped alone
markWordAsLearned_keepSkipped(prog, cur, word) ==
    IF ~hasCurrentSourceProgress(prog, cur) THEN prog
    ELSE LET p == prog[cur]
             wordKey == toLowerCase(word)
         IN  IF ~someLower(p.learned, wordKey)
             THEN [prog EXCEPT ![cur].learned = Append(p.learned, word)]
             ELSE prog

\* markWordAsLearned(word), with prog = progress[currentSource]
markWordAsLearned(prog, cur, word) ==
    IF ~hasCurrentSourceProgress(prog, cur) THEN prog
    ELSE LET p == prog[cur]
             wordKey == toLowerCase(word)
             skipped == filterLower(p.skipped, wordKey)
             learned == IF ~someLower(p.learned, wordKey)
                        THEN Append(p.learned, word)
                        ELSE p.learned
         IN  [prog EXCEPT ![cur] = [p EXCEPT !.skipped = skipped, !.learned = learned]]

\* markWordAsSkipped that takes the term out of prog.learned
markWordAsSkipped_dropsLearned(prog, cur, word) ==
    IF ~hasCurrentSourceProgress(prog, cur) THEN prog
    ELSE LET p == prog[cur]
             wordKey == toLowerCase(word)
         IN  IF ~someLower(p.skipped, wordKey)
             THEN [prog EXCEPT ![cur] = [p EXCEPT !.learned = filterLower(p.learned, wordKey),
                                                  !.skipped = Append(p.skipped, word)]]
             ELSE prog

\* markWordAsSkipped without the test on prog.learned
markWordAsSkipped_noLearnedCheck(prog, cur, word) ==
    IF ~hasCurrentSourceProgress(prog, cur) THEN prog
    ELSE LET p == prog[cur]
             wordKey == toLowerCase(word)
         IN  IF ~someLower(p.skipped, wordKey)
             THEN [prog EXCEPT ![cur].skipped = Append(p.skipped, word)]
             ELSE prog

\* markWordAsSkipped without the test on prog.skipped
markWordAsSkipped_noSkippedCheck(prog, cur, word) ==
    IF ~hasCurrentSourceProgress(prog, cur) THEN prog
    ELSE LET p == prog[cur]
             wordKey == toLowerCase(word)
         IN  IF ~someLower(p.learned, wordKey)
             THEN [prog EXCEPT ![cur].skipped = Append(p.skipped, word)]
             ELSE prog

\* markWordAsSkipped(word)
markWordAsSkipped(prog, cur, word) ==
    IF ~hasCurrentSourceProgress(prog, cur) THEN prog
    ELSE LET p == prog[cur]
             wordKey == toLowerCase(word)
         IN  IF ~someLower(p.learned, wordKey) /\ ~someLower(p.skipped, wordKey)
             THEN [prog EXCEPT ![cur].skipped = Append(p.skipped, word)]
             ELSE prog

\* resetSourceProgress with its guard inverted
resetSourceProgress_guardInverted(prog, sourceName) ==
    IF sourceName \notin DOMAIN prog
    THEN Put(prog, sourceName, EmptyProgress)
    ELSE prog

\* resetSourceProgress(sourceName)
resetSourceProgress(prog, sourceName) ==
    IF sourceName \in DOMAIN prog
    THEN [prog EXCEPT ![sourceName] = EmptyProgress]
    ELSE prog

\* history "unlearn" click: progress[sourceName].learned.filter(...)
unlearn(prog, sourceName, wordText) ==
    IF sourceName \in DOMAIN prog
    THEN [prog EXCEPT ![sourceName].learned = filterLower(@, toLowerCase(wordText))]
    ELSE prog

\* history "unskip" click: progress[sourceName].skipped.filter(...)
unskip(prog, sourceName, wordText) ==
    IF sourceName \in DOMAIN prog
    THEN [prog EXCEPT ![sourceName].skipped = filterLower(@, toLowerCase(wordText))]
    ELSE prog

\* sourceWords.find(w => w.word.toLowerCase() === wordText.toLowerCase()):
\* the words a history button can carry for an entry of a progress list
historyWord(words, wordText) ==
    IF \E i \in 1..Len(words) : toLowerCase(words[i]) = toLowerCase(wordText)
    THEN LET i == CHOOSE i \in 1..Len(words) :
                    /\ toLowerCase(words[i]) = toLowerCase(wordText)
                    /\ \A j \in 1..(i-1) : toLowerCase(words[j]) # toLowerCase(wordText)
         IN  words[i]
    ELSE Null

(* ----------------- sequential policy (local, server) ------------------- *)
\* the for loop of getNextUnlearnedWord: 0-based index of the first word
\* at or after i that is not learned, -1 when the loop runs off the end
RECURSIVE scanFrom_stopsEarly(_, _, _)
scanFrom_stopsEarly(words, learned, i) ==
    IF i >= Len(words) - 1 THEN -1
    ELSE IF ~someLower(learned, toLowerCase(words[i + 1])) THEN i
    ELSE scanFrom_stopsEarly(words, learned, i + 1)

RECURSIVE scanFrom(_, _, _)
scanFrom(words, learned, i) ==
    IF i >= Len(words) THEN -1
    ELSE IF ~someLower(learned, toLowerCase(words[i + 1])) THEN i
    ELSE scanFrom(words, learned, i + 1)

\* getNextUnlearnedWord that never writes prog.currentIndex = i
getNextUnlearnedWord_indexZero(srcs, prog, cur) ==
    IF cur = NoSource \/ ~hasCurrentSourceProgress(prog, cur)
    THEN [thrown |-> FALSE, word |-> Null, index |-> -1]
    ELSE LET words == getSourceWords(srcs, cur)
             i == scanFrom(words, prog[cur].learned, 0)
         IN  IF i >= 0 THEN [thrown |-> FALSE, word |-> words[i + 1], index |-> prog[cur].currentIndex]
             ELSE [thrown |-> FALSE, word |-> Null, index |-> -1]

\* getNextUnlearnedWord(): thrown = the TypeError of prog.learned on a null prog
getNextUnlearnedWord(srcs, prog, cur) ==
    IF cur = NoSource THEN [thrown |-> FALSE, word |-> Null, index |-> -1]
    ELSE LET words == getSourceWords(srcs, cur) IN
         IF Len(words) = 0 THEN [thrown |-> FALSE, word |-> Null, index |-> -1]
         ELSE IF ~hasCurrentSourceProgress(prog, cur)
              THEN [thrown |-> TRUE, word |-> Null, index |-> -1]
         ELSE LET i == scanFrom(words, prog[cur].learned, 0) IN
              IF i >= 0 THEN [thrown |-> FALSE, word |-> words[i + 1], index |-> i]
              ELSE [thrown |-> FALSE, word |-> Null, index |-> -1]

(* ---------------------- learned words (mobile) ------------------------- *)
\* initLearnedForSource(sourceName)
initLearnedForSource(lw, sourceName) ==
    IF sourceName \in DOMAIN lw THEN lw ELSE Put(lw, sourceName, <<>>)

\* markWordAsLearned(sourceName, word) of app-sources-mobile.js
markWordAsLearnedMobile(lw, sourceName, word) ==
    LET lw1 == initLearnedForSource(lw, sourceName)
        wordKey == toLowerCase(word)
    IN  IF ~someLower(lw1[sourceName], wordKey)
        THEN [lw1 EXCEPT ![sourceName] = Append(@, word)]
        ELSE lw1

\* unmarkWordAsLearned with the filter test inverted (=== for !==)
unmarkWordAsLearned_inverted(lw, sourceName, word) ==
    IF sourceName \notin DOMAIN lw THEN lw
    ELSE [lw EXCEPT ![sourceName] =
             SelectSeq(@, LAMBDA w : toLowerCase(w) = toLowerCase(word))]

\* unmarkWordAsLearned(sourceName, word)
unmarkWordAsLearned(lw, sourceName, word) ==
    IF sourceName \notin DOMAIN lw THEN lw
    ELSE [lw EXCEPT ![sourceName] = filterLower(@, toLowerCase(word))]

\* getLearnedCount counting the entries after the first
getLearnedCount_lessOne(lw, sourceName) ==
    IF sourceName \in DOMAIN lw /\ lw[sourceName] # <<>> THEN Len(lw[sourceName]) - 1 ELSE 0

\* getLearnedCount(sourceName)
getLearnedCount(lw, sourceName) ==
    IF sourceName \in DOMAIN lw THEN Len(lw[sourceName]) ELSE 0

\* getTotalWords(sourceName): totalWords is words.length of the listing
getTotalWords(srcs, sourceName) ==
    IF sourceName \in DOMAIN srcs THEN Len(srcs[sourceName]) ELSE 0

(* ------------------------ random policy (mobile) ----------------------- *)
\* availableWords comparing word.word itself, not word.word.toLowerCase()
availableWords_noLowerCase(srcs, lw, cur) ==
    IF cur = NoSource \/ cur \notin DOMAIN srcs THEN <<>>
    ELSE LET learned == IF cur \in DOMAIN lw THEN lw[cur] ELSE <<>>
         IN  SelectSeq(srcs[cur], LAMBDA w : ~someLower(learned, w))

\* allWords.filter(word => !learned.some(...)) of getRandomWord
availableWords(srcs, lw, cur) ==
    IF cur = NoSource \/ cur \notin DOMAIN srcs THEN <<>>
    ELSE LET learned == IF cur \in DOMAIN lw THEN lw[cur] ELSE <<>>
         IN  SelectSeq(srcs[cur], LAMBDA w : ~someLower(learned, toLowerCase(w)))

\* Math.random() yields r / RandomGrain, 0 <= r < RandomGrain
RandomValues == 0..(RandomGrain - 1)

\* Math.floor(Math.random() * n)
randomIndex(r, n) == (r * n) \div RandomGrain

\* getRandomWord picking from allWords instead of availableWords
getRandomWord_fromAllWords(srcs, lw, cur, r) ==
    IF Len(availableWords(srcs, lw, cur)) = 0 THEN Null
    ELSE srcs[cur][randomIndex(r, Len(srcs[cur])) + 1]

\* getRandomWord() when Math.random() yields r / RandomGrain
getRandomWord(srcs, lw, cur, r) ==
    LET available == availableWords(srcs, lw, cur) IN
    IF Len(available) = 0 THEN Null
    ELSE available[randomIndex(r, Len(available)) + 1]

(* --------------------------- engine state ------------------------------ *)
\* The module-level variables a handler reads and writes, as one record, so
\* that a handler is the composition of the functions it calls.
Now == [sources |-> sources, progress |-> progress, learnedWords |-> learnedWords,
        currentSource |-> currentSource, currentWord |-> currentWord,
        screen |-> screen, timers |-> timers, selectorState |-> selectorState,
        lastSelect |-> [called |-> FALSE, source |-> NoSource, word |-> Null],
        storage |-> storage, full |-> storageFull, saveFailed |-> FALSE]

\* the module-level value that `key` of STORAGE is written from
inMemory(st, key) ==
    IF key = "sources" THEN st.sources
    ELSE IF key = "progress" THEN st.progress
    ELSE IF key = "learned" THEN st.learnedWords
    ELSE st.currentSource

\* saveToStorage whose catch block reloads progress and learnedWords from
\* localStorage
saveToStorage_reloadsOnError(st, key) ==
    IF st.full
    THEN [st EXCEPT !.saveFailed = TRUE,
                    !.progress = st.storage.progress,
                    !.learnedWords = st.storage.learned]
    ELSE [st EXCEPT !.storage = [@ EXCEPT ![key] = inMemory(st, key)]]

\* saveToStorage(key, data): try { localStorage.setItem } catch { log }
saveToStorage(st, key) ==
    IF st.full
    THEN [st EXCEPT !.saveFailed = TRUE]
    ELSE [st EXCEPT !.storage = [@ EXCEPT ![key] = inMemory(st, key)]]

\* a handler that changes progress and leaves out the saveProgress() call
saveProgress_notCalled(st, prog1, called) == [st EXCEPT !.progress = prog1]

\* progress becomes prog1, and saveProgress() runs when `called`
saveProgress(st, prog1, called) ==
    LET st1 == [st EXCEPT !.progress = prog1] IN
    IF called THEN saveToStorage(st1, "progress") ELSE st1

\* learnedWords becomes lw1, and saveLearned() runs when `called`
saveLearned(st, lw1, called) ==
    LET st1 == [st EXCEPT !.learnedWords = lw1] IN
    IF called THEN saveToStorage(st1, "learned") ELSE st1

\* currentSource = name; saveToStorage(STORAGE.CURRENT_SOURCE, currentSource)
saveCurrent(st, name) == saveToStorage([st EXCEPT !.currentSource = name], "current")

\* the loads of init(): loadSources() (app-sources.js only; the other two
\* fetch the sources from the server), loadProgress() / loadLearned(),
\* currentSource = loadFromStorage(STORAGE.CURRENT_SOURCE, '')
loadFromStorage(st, local) ==
    [st EXCEPT !.sources = IF local THEN st.storage.sources ELSE @,
               !.progress = st.storage.progress,
               !.learnedWords = st.storage.learned,
               !.currentSource = st.storage.current]

TypeError == "<TypeError>"

setSelector(sel, s, v) == IF s \in DOMAIN sel THEN [sel EXCEPT ![s] = v] ELSE sel

\* an unmark that removed an entry of a Completed source
noteUnmark(sel, s, removed) ==
    IF s \in DOMAIN sel /\ sel[s] = "Completed" /\ removed
    THEN [sel EXCEPT ![s] = "Unmarked"] ELSE sel

\* loadNextWord() of app-sources.js / app-sources-server.js
loadNextWordSequential(st) ==
    LET res == getNextUnlearnedWord(st.sources, st.progress, st.currentSource)
        cur == st.currentSource
    IN  IF res.thrown
        THEN [st EXCEPT !.lastSelect = [called |-> TRUE, source |-> cur, word |-> TypeError]]
        ELSE IF res.word = Null
        THEN [st EXCEPT !.lastSelect = [called |-> TRUE, source |-> cur, word |-> Null],
                        !.screen = "completed",
                        !.selectorState = setSelector(@, cur, "Completed")]
        ELSE [saveProgress(st, [st.progress EXCEPT ![cur].currentIndex = res.index], TRUE)
                 EXCEPT !.lastSelect = [called |-> TRUE, source |-> cur, word |-> res.word],
                        !.currentWord = res.word,
                        !.screen = "card",
                        !.selectorState = setSelector(@, cur, "Selecting")]

\* loadNextWord() of app-sources-mobile.js, Math.random() yielding index r
loadNextWordRandom(st, r) ==
    LET word == getRandomWord(st.sources, st.learnedWords, st.currentSource, r)
        cur == st.currentSource
    IN  IF word = Null
        THEN [st EXCEPT !.lastSelect = [called |-> TRUE, source |-> cur, word |-> Null],
                        !.screen = "completed",
                        !.selectorState = setSelector(@, cur, "Completed")]
        ELSE [st EXCEPT !.lastSelect = [called |-> TRUE, source |-> cur, word |-> word],
                        !.currentWord = word,
                        !.screen = "card",
                        !.selectorState = setSelector(@, cur, "Selecting")]

\* the learned / skipped list of source s, <<>> when it has none
learnedOf(s) ==
    IF variant = "mobile"
    THEN IF s \in DOMAIN learnedWords THEN learnedWords[s] ELSE <<>>
    ELSE IF s \in DOMAIN progress THEN progress[s].learned ELSE <<>>

skippedOf(s) == IF s \in DOMAIN progress THEN progress[s].skipped ELSE <<>>

\* handler op runs on source s and term w (Null when it takes none)
Call(op, s, w) ==
    [op |-> op, source |-> s, word |-> w,
     wasLearned |-> w # Null /\ someLower(learnedOf(s), toLowerCase(w)),
     wasSkipped |-> w # Null /\ someLower(skippedOf(s), toLowerCase(w)),
     wasCompleted |-> s \in DOMAIN selectorState /\ selectorState[s] # "Selecting",
     saveFailed |-> FALSE]

\* the handler call leaves the engine in state st
Engine(st, call) ==
    /\ sources' = st.sources
    /\ progress' = st.progress
    /\ learnedWords' = st.learnedWords
    /\ currentSource' = st.currentSource
    /\ currentWord' = st.currentWord
    /\ screen' = st.screen
    /\ timers' = st.timers
    /\ selectorState' = st.selectorState
    /\ lastSelect' = st.lastSelect
    /\ lastCall' = [call EXCEPT !.saveFailed = st.saveFailed]
    /\ storage' = st.storage
    /\ booted' = TRUE
    /\ UNCHANGED <<variant, storageFull>>
    /\ UNCHANGED storeVars
    /\ UNCHANGED loadVars

\* swipedWords after a handler that leaves the timers tm: a timer was set
\* while w was displayed, or the oldest timer has run
pending(tm, w) ==
    IF Len(tm) > Len(timers) THEN Append(swipedWords, w)
    ELSE IF Len(tm) < Len(timers) THEN Tail(swipedWords)
    ELSE swipedWords

\* a handler that is not a touch listener
Commit(st, call) ==
    /\ Engine(st, call)
    /\ swipedWords' = pending(st.timers, Null)
    /\ UNCHANGED <<startX, currentX, isDragging>>

(* ---------------------- handlers of app-sources.js ---------------------- *)
\* updateSourceSelector(): auto-select the first source when none is current
updateSourceSelectorLocal(st) ==
    IF st.currentSource = NoSource /\ DOMAIN st.sources # {}
    THEN saveCurrent(st, firstKey(st.sources))
    ELSE st

\* init(): load, auto-select, first word or the empty state
initLocal(st) ==
    LET st1 == updateSourceSelectorLocal(loadFromStorage(st, TRUE)) IN
    IF st1.currentSource # NoSource /\ st1.currentSource \in DOMAIN st1.sources
    THEN loadNextWordSequential(st1)
    ELSE [st1 EXCEPT !.screen = "empty"]

\* selectSource(sourceName)
selectSourceLocal(st, sourceName) ==
    IF sourceName \notin DOMAIN st.sources THEN st
    ELSE LET st1 == saveCurrent(st, sourceName)
             st2 == saveProgress(st1, initSourceProgress(st1.progress, sourceName),
                                 sourceName \notin DOMAIN st1.progress)
         IN  loadNextWordSequential(updateSourceSelectorLocal(st2))

\* learnedBtn click (same code in app-sources-server.js)
learnedBtn(st) ==
    IF st.currentWord = Null THEN st
    ELSE loadNextWordSequential(
            saveProgress(st, markWordAsLearned(st.progress, st.currentSource, st.currentWord),
                         hasCurrentSourceProgress(st.progress, st.currentSource)))

\* skipBtn click (same code in app-sources-server.js)
skipBtn(st) ==
    IF st.currentWord = Null THEN st
    ELSE loadNextWordSequential(
            saveProgress(st, markWordAsSkipped(st.progress, st.currentSource, st.currentWord),
                         hasCurrentSourceProgress(st.progress, st.currentSource)))

\* handleEnd with currentX < -100: mark now, load the next word in 300 ms
swipeLeftLocal(st) ==
    [saveProgress(st, markWordAsLearned(st.progress, st.currentSource, st.currentWord),
                  hasCurrentSourceProgress(st.progress, st.currentSource))
        EXCEPT !.timers = Append(@, "load")]

\* handleEnd with currentX > 100
swipeRightLocal(st) ==
    [saveProgress(st, markWordAsSkipped(st.progress, st.currentSource, st.currentWord),
                  hasCurrentSourceProgress(st.progress, st.currentSource))
        EXCEPT !.timers = Append(@, "load")]

\* resetProgressBtn click on the completion message (same code in
\* app-sources-server.js): reset, load, then show the card
resetProgressBtn(st) ==
    LET st1 == [saveProgress(st, resetSourceProgress(st.progress, st.currentSource),
                             st.currentSource \in DOMAIN st.progress)
                   EXCEPT !.selectorState =
                              IF st.currentSource \in DOMAIN st.progress
                              THEN setSelector(@, st.currentSource, "Selecting")
                              ELSE @]
    IN  [loadNextWordSequential(st1) EXCEPT !.screen = "card"]

\* sources list, data-action="reset"
resetSourceLocal(st, sourceName) ==
    [saveProgress(st, resetSourceProgress(st.progress, sourceName),
                  sourceName \in DOMAIN st.progress)
        EXCEPT !.selectorState =
                   IF sourceName \in DOMAIN st.progress
                   THEN setSelector(@, sourceName, "Selecting")
                   ELSE @]

\* deleteSource(name)
deleteSourceLocal(st, name) ==
    IF name \in DOMAIN st.sources
    THEN LET st1 == [st EXCEPT !.sources = Delete(@, name)]
             st2 == saveProgress(st1, Delete(st1.progress, name),
                                 name \in DOMAIN st1.progress)
         IN  saveToStorage(st2, "sources")
    ELSE st

\* sources list, data-action="delete"
deleteClickLocal(st, sourceName) ==
    LET st1 == deleteSourceLocal(st, sourceName)
        st2 == IF st1.currentSource = sourceName
               THEN [saveCurrent(st1, NoSource) EXCEPT !.screen = "empty"]
               ELSE st1
    IN  updateSourceSelectorLocal(st2)

\* history list, data-action="unlearn"
unlearnClick(st, sourceName, wordText) ==
    LET before == IF sourceName \in DOMAIN st.progress
                  THEN st.progress[sourceName].learned ELSE <<>>
        prog1 == unlearn(st.progress, sourceName, wordText)
        after == IF sourceName \in DOMAIN prog1 THEN prog1[sourceName].learned ELSE <<>>
    IN  [saveProgress(st, prog1, sourceName \in DOMAIN st.progress)
            EXCEPT !.selectorState = noteUnmark(@, sourceName, after # before)]

\* history list, data-action="unskip"
unskipClick(st, sourceName, wordText) ==
    saveProgress(st, unskip(st.progress, sourceName, wordText),
                 sourceName \in DOMAIN st.progress)

\* refreshSourceBtn click
refreshLocal(st) ==
    IF st.currentSource # NoSource THEN loadNextWordSequential(st) ELSE st

(* ------------------- handlers of app-sources-server.js ----------------- *)
\* updateSourceSelector(): keep a valid current source, else auto-select
updateSourceSelectorServer(st) ==
    IF st.currentSource # NoSource /\ st.currentSource \in DOMAIN st.sources THEN st
    ELSE IF DOMAIN st.sources # {}
    THEN LET st1 == saveCurrent(st, firstKey(st.sources)) IN
         saveProgress(st1, initSourceProgress(st1.progress, st1.currentSource),
                      st1.currentSource \notin DOMAIN st1.progress)
    ELSE st

\* init()
initServer(st) ==
    LET st1 == updateSourceSelectorServer(loadFromStorage(st, FALSE)) IN
    IF DOMAIN st1.sources = {} THEN [st1 EXCEPT !.screen = "empty"]
    ELSE IF st1.currentSource # NoSource /\ st1.currentSource \in DOMAIN st1.sources
    THEN loadNextWordSequential(
            saveProgress(st1, initSourceProgress(st1.progress, st1.currentSource),
                         st1.currentSource \notin DOMAIN st1.progress))
    ELSE [st1 EXCEPT !.screen = "empty"]

\* selectSource(sourceName): the first word is loaded 300 ms later
selectSourceServer(st, sourceName) ==
    IF sourceName \notin DOMAIN st.sources THEN st
    ELSE LET st1 == saveCurrent(st, sourceName) IN
         [saveProgress(st1, initSourceProgress(st1.progress, sourceName),
                       sourceName \notin DOMAIN st1.progress)
             EXCEPT !.screen = "loading",
                    !.timers = Append(@, "load")]

\* touchend with diff < -100 / diff > 100: everything happens 300 ms later
swipeServer(st, kind) == [st EXCEPT !.timers = Append(@, kind)]

\* the setTimeout callbacks
timerCallback(st, kind) ==
    IF kind = "load" THEN loadNextWordSequential(st)
    ELSE IF kind = "learn" THEN learnedBtn(st)
    ELSE skipBtn(st)

\* confirmDeleteSource(name), ok = the server deleted the file
confirmDeleteSource(st, name, ok) ==
    IF name \notin DOMAIN st.sources \/ ~ok THEN st
    ELSE LET st0 == [st EXCEPT !.sources = Delete(@, name)]
             st1 == saveProgress(st0, Delete(st0.progress, name),
                                 name \in DOMAIN st0.progress)
             st2 == updateSourceSelectorServer(st1)
         IN  IF st2.currentSource = name
             THEN [saveCurrent(st2, NoSource) EXCEPT !.screen = "empty"]
             ELSE st2

\* refreshSourceBtn click: reload the sources, then the next word
refreshServer(st) ==
    LET st1 == updateSourceSelectorServer([st EXCEPT !.screen = "loading"]) IN
    IF st1.currentSource # NoSource /\ st1.currentSource \in DOMAIN st1.sources
    THEN loadNextWordSequential(st1)
    ELSE [st1 EXCEPT !.screen = "empty"]

(* ------------------- handlers of app-sources-mobile.js ----------------- *)
\* init()
initMobile(st, r) ==
    LET st0 == loadFromStorage(st, FALSE) IN
    IF DOMAIN st.sources = {}
    THEN [st0 EXCEPT !.currentSource = st.currentSource, !.screen = "empty"]
    ELSE LET cur == IF st0.currentSource \in DOMAIN st0.sources
                    THEN st0.currentSource ELSE firstKey(st0.sources)
             st1 == saveCurrent(st0, cur)
         IN  loadNextWordRandom(
                saveLearned(st1, initLearnedForSource(st1.learnedWords, cur),
                            cur \notin DOMAIN st1.learnedWords), r)

\* .source-item / .btn-select click
selectSourceMobile(st, sourceName, r) ==
    LET st1 == saveCurrent(st, sourceName) IN
    loadNextWordRandom(
        saveLearned(st1, initLearnedForSource(st1.learnedWords, sourceName),
                    sourceName \notin DOMAIN st1.learnedWords), r)

\* markLearnedBtn click: mark now, load the next word in 500 ms
markLearnedBtn(st) ==
    IF st.currentWord = Null THEN st
    ELSE LET lw1 == markWordAsLearnedMobile(st.learnedWords, st.currentSource, st.currentWord) IN
         [saveLearned(st, lw1, lw1 # st.learnedWords) EXCEPT !.timers = Append(@, "load")]

\* touchend with diffX < -80: mark now, load the next word in 300 ms
swipeLeftMobile(st) ==
    LET lw1 == markWordAsLearnedMobile(st.learnedWords, st.currentSource, st.currentWord) IN
    [saveLearned(st, lw1, lw1 # st.learnedWords) EXCEPT !.timers = Append(@, "load")]

\* .btn-unlearn click
unlearnClickMobile(st, sourceName, word) ==
    LET lw1 == unmarkWordAsLearned(st.learnedWords, sourceName, word) IN
    [saveLearned(st, lw1, sourceName \in DOMAIN st.learnedWords)
        EXCEPT !.selectorState = noteUnmark(@, sourceName, lw1 # st.learnedWords)]

\* resetBtn click
resetBtn(st, r) ==
    IF st.currentSource = NoSource THEN st
    ELSE loadNextWordRandom(
            [saveLearned(st, Put(st.learnedWords, st.currentSource, <<>>), TRUE)
                EXCEPT !.selectorState = setSelector(@, st.currentSource, "Selecting")], r)

\* .btn-delete click, ok = the server deleted the file
deleteClickMobile(st, sourceName, ok) ==
    IF ~ok THEN st
    ELSE [st EXCEPT !.sources = Delete(@, sourceName),
                    !.currentSource = IF @ = sourceName THEN NoSource ELSE @]

(* ------------------------------ actions -------------------------------- *)
WordLists(minLen) == {SubSeq(MasterWords, 1, n) : n \in minLen..MaxWords}

\* The page has loaded its script; init() has not run.  app-sources.js keeps
\* its sources in localStorage, where addSource stored them non-empty and
\* created their progress records; the other two read them from the server,
\* which also stores empty lists.
Init ==
    /\ variant \in Variants
    /\ booted = FALSE
    /\ \E a \in WordLists(IF variant = "local" THEN 1 ELSE 0) :
            sources = [n \in SourceNames |-> IF n = "A" THEN a ELSE OtherWords]
    /\ progress = IF variant = "local"
                  THEN [n \in SourceNames |-> EmptyProgress]
                  ELSE [n \in {} |-> EmptyProgress]
    /\ learnedWords = [n \in {} |-> <<>>]
    /\ currentSource = NoSource
    /\ currentWord = Null
    /\ screen = "loading"
    /\ timers = <<>>
    /\ selectorState = [n \in SourceNames |-> "Selecting"]
    /\ lastCall = Call("load", NoSource, Null)
    /\ lastSelect = [called |-> FALSE, source |-> NoSource, word |-> Null]
    /\ files = NoFiles
    /\ response = NoResponse
    /\ storage = [sources |-> IF variant = "local" THEN sources ELSE [n \in {} |-> <<>>],
                  progress |-> progress, learned |-> learnedWords, current |-> NoSource]
    /\ storageFull = FALSE
    /\ LoadIdle
    /\ GestureIdle

Running(v) == booted /\ variant = v
CardShown == screen = "card" /\ currentWord # Null
CanSetTimer == Len(timers) < MaxTimers

InitLocalStep == ~booted /\ variant = "local" /\ Commit(initLocal(Now), Call("init", NoSource, Null))
InitServerStep == ~booted /\ variant = "server" /\ Commit(initServer(Now), Call("init", NoSource, Null))
InitMobileStep ==
    /\ ~booted /\ variant = "mobile"
    /\ \E r \in RandomValues : Commit(initMobile(Now, r), Call("init", NoSource, Null))

SelectSourceLocalStep ==
    /\ Running("local")
    /\ \E n \in DOMAIN sources : Commit(selectSourceLocal(Now, n), Call("selectSource", n, Null))

SelectSourceServerStep ==
    /\ Running("server") /\ CanSetTimer
    /\ \E n \in DOMAIN sources : Commit(selectSourceServer(Now, n), Call("selectSource", n, Null))

SelectSourceMobileStep ==
    /\ Running("mobile")
    /\ \E n \in DOMAIN sources, r \in RandomValues :
          Commit(selectSourceMobile(Now, n, r), Call("selectSource", n, Null))

LearnedBtnStep ==
    /\ booted /\ variant \in {"local", "server"} /\ currentWord # Null
    /\ Commit(learnedBtn(Now), Call("learnedBtn", currentSource, currentWord))

SkipBtnStep ==
    /\ booted /\ variant \in {"local", "server"} /\ currentWord # Null
    /\ Commit(skipBtn(Now), Call("skipBtn", currentSource, currentWord))

SwipeLeftLocalStep ==
    /\ Running("local") /\ CardShown /\ CanSetTimer
    /\ Commit(swipeLeftLocal(Now), Call("swipeLeft", currentSource, currentWord))

SwipeRightLocalStep ==
    /\ Running("local") /\ CardShown /\ CanSetTimer
    /\ Commit(swipeRightLocal(Now), Call("swipeRight", currentSource, currentWord))

SwipeServerStep ==
    /\ Running("server") /\ CardShown /\ CanSetTimer
    /\ \E kind \in {"learn", "skip"} :
          /\ Engine(swipeServer(Now, kind), Call("swipe", currentSource, Null))
          /\ swipedWords' = pending(swipeServer(Now, kind).timers, currentWord)
          /\ UNCHANGED <<startX, currentX, isDragging>>

\* the oldest pending setTimeout callback runs
TimerSequentialStep ==
    /\ booted /\ variant \in {"local", "server"} /\ timers # <<>>
    /\ Commit(timerCallback([Now EXCEPT !.timers = Tail(@)], Head(timers)),
              IF Head(timers) = "learn" THEN Call("timerLearn", currentSource, currentWord)
              ELSE IF Head(timers) = "skip" THEN Call("timerSkip", currentSource, currentWord)
              ELSE Call("timerLoad", currentSource, Null))

TimerMobileStep ==
    /\ Running("mobile") /\ timers # <<>>
    /\ \E r \in RandomValues :
          Commit(loadNextWordRandom([Now EXCEPT !.timers = Tail(@)], r),
                 Call("timerLoad", currentSource, Null))

ResetProgressBtnStep ==
    /\ booted /\ variant \in {"local", "server"} /\ screen = "completed"
    /\ Commit(resetProgressBtn(Now), Call("resetProgressBtn", currentSource, Null))

ResetSourceLocalStep ==
    /\ Running("local")
    /\ \E n \in DOMAIN sources : Commit(resetSourceLocal(Now, n), Call("resetSource", n, Null))

DeleteLocalStep ==
    /\ Running("local")
    /\ \E n \in DOMAIN sources : Commit(deleteClickLocal(Now, n), Call("deleteSource", n, Null))

DeleteServerStep ==
    /\ Running("server")
    /\ \E n \in DOMAIN sources, ok \in BOOLEAN :
          Commit(confirmDeleteSource(Now, n, ok), Call("deleteSource", n, Null))

DeleteMobileStep ==
    /\ Running("mobile")
    /\ \E n \in DOMAIN sources, ok \in BOOLEAN :
          Commit(deleteClickMobile(Now, n, ok), Call("deleteSource", n, Null))

\* the history modal lists the entries of learned that name a word of the source
UnlearnLocalStep ==
    /\ Running("local")
    /\ \E n \in DOMAIN progress : \E i \in 1..Len(progress[n].learned) :
          LET w == historyWord(getSourceWords(sources, n), progress[n].learned[i]) IN
          /\ w # Null
          /\ Commit(unlearnClick(Now, n, w), Call("unlearn", n, w))

UnskipLocalStep ==
    /\ Running("local")
    /\ \E n \in DOMAIN progress : \E i \in 1..Len(progress[n].skipped) :
          LET w == historyWord(getSourceWords(sources, n), progress[n].skipped[i]) IN
          /\ w # Null
          /\ Commit(unskipClick(Now, n, w), Call("unskip", n, w))

\* the learned modal lists every entry of every learned list
UnlearnMobileStep ==
    /\ Running("mobile")
    /\ \E n \in DOMAIN learnedWords : \E i \in 1..Len(learnedWords[n]) :
          Commit(unlearnClickMobile(Now, n, learnedWords[n][i]),
                 Call("unlearn", n, learnedWords[n][i]))

RefreshLocalStep ==
    /\ Running("local") /\ currentSource # NoSource
    /\ Commit(refreshLocal(Now), Call("refresh", currentSource, Null))

RefreshServerStep == Running("server") /\ Commit(refreshServer(Now), Call("refresh", currentSource, Null))

MarkLearnedBtnStep ==
    /\ Running("mobile") /\ currentWord # Null /\ CanSetTimer
    /\ Commit(markLearnedBtn(Now), Call("markLearnedBtn", currentSource, currentWord))

SwipeLeftMobileStep ==
    /\ Running("mobile") /\ CardShown /\ CanSetTimer
    /\ Commit(swipeLeftMobile(Now), Call("swipeLeft", currentSource, currentWord))

ResetBtnStep ==
    /\ Running("mobile") /\ currentSource # NoSource
    /\ \E r \in RandomValues : Commit(resetBtn(Now, r), Call("resetBtn", currentSource, Null))

Next ==
    \/ InitLocalStep \/ InitServerStep \/ InitMobileStep
    \/ SelectSourceLocalStep \/ SelectSourceServerStep \/ SelectSourceMobileStep
    \/ LearnedBtnStep \/ SkipBtnStep
    \/ SwipeLeftLocalStep \/ SwipeRightLocalStep \/ SwipeServerStep
    \/ TimerSequentialStep \/ TimerMobileStep
    \/ ResetProgressBtnStep \/ ResetSourceLocalStep
    \/ DeleteLocalStep \/ DeleteServerStep \/ DeleteMobileStep
    \/ UnlearnLocalStep \/ UnskipLocalStep \/ UnlearnMobileStep
    \/ RefreshLocalStep \/ RefreshServerStep
    \/ MarkLearnedBtnStep \/ SwipeLeftMobileStep \/ ResetBtnStep

Spec == Init /\ [][Next]_vars

(* ------------------- the page with a failing localStorage -------------- *)
\* As Init, with source A at its longest, and a localStorage that throws
\* on every setItem of the session (quota exceeded, private mode).
PersistInit ==
    /\ variant \in Variants
    /\ booted = FALSE
    /\ sources = [n \in SourceNames |->
                    IF n = "A" THEN SubSeq(MasterWords, 1, MaxWords) ELSE OtherWords]
    /\ progress = IF variant = "local"
                  THEN [n \in SourceNames |-> EmptyProgress]
                  ELSE [n \in {} |-> EmptyProgress]
    /\ learnedWords = [n \in {} |-> <<>>]
    /\ currentSource = NoSource
    /\ currentWord = Null
    /\ screen = "loading"
    /\ timers = <<>>
    /\ selectorState = [n \in SourceNames |-> "Selecting"]
    /\ lastCall = Call("load", NoSource, Null)
    /\ lastSelect = [called |-> FALSE, source |-> NoSource, word |-> Null]
    /\ files = NoFiles
    /\ response = NoResponse
    /\ storage = [sources |-> IF variant = "local" THEN sources ELSE [n \in {} |-> <<>>],
                  progress |-> progress, learned |-> learnedWords, current |-> NoSource]
    /\ storageFull = TRUE
    /\ LoadIdle
    /\ GestureIdle

PersistSpec == PersistInit /\ [][Next]_vars

(* ------------- the page reloaded, localStorage failing at times -------- *)
\* As PersistInit, with a localStorage that works when the page loads.
ReloadInit ==
    /\ variant \in Variants
    /\ booted = FALSE
    /\ sources = [n \in SourceNames |->
                    IF n = "A" THEN SubSeq(MasterWords, 1, MaxWords) ELSE OtherWords]
    /\ progress = IF variant = "local"
                  THEN [n \in SourceNames |-> EmptyProgress]
                  ELSE [n \in {} |-> EmptyProgress]
    /\ learnedWords = [n \in {} |-> <<>>]
    /\ currentSource = NoSource
    /\ currentWord = Null
    /\ screen = "loading"
    /\ timers = <<>>
    /\ selectorState = [n \in SourceNames |-> "Selecting"]
    /\ lastCall = Call("load", NoSource, Null)
    /\ lastSelect = [called |-> FALSE, source |-> NoSource, word |-> Null]
    /\ files = NoFiles
    /\ response = NoResponse
    /\ storage = [sources |-> IF variant = "local" THEN sources ELSE [n \in {} |-> <<>>],
                  progress |-> progress, learned |-> learnedWords, current |-> NoSource]
    /\ storageFull = FALSE
    /\ LoadIdle
    /\ GestureIdle

\* setItem starts or stops throwing between two handlers
QuotaStep ==
    /\ storageFull' = ~storageFull
    /\ UNCHANGED <<variant, booted, sources, progress, learnedWords, currentSource,
                   currentWord, screen, timers, lastCall, lastSelect, selectorState,
                   storage>>
    /\ UNCHANGED storeVars
    /\ UNCHANGED loadVars
    /\ UNCHANGED gestureVars

\* The page is reloaded: the script starts again with its initial values
\* (`let progress = {}` ...) and init() has not run.  The sources of the
\* server pages stand for what the server will list.  A reload of
\* app-sources.js with no stored source (init() then creates the sample
\* source) is left out.
ReloadStep ==
    /\ booted
    /\ variant = "local" => DOMAIN storage.sources # {}
    /\ booted' = FALSE
    /\ sources' = IF variant = "local" THEN [n \in {} |-> <<>>] ELSE sources
    /\ progress' = [n \in {} |-> EmptyProgress]
    /\ learnedWords' = [n \in {} |-> <<>>]
    /\ currentSource' = NoSource
    /\ currentWord' = Null
    /\ screen' = "loading"
    /\ timers' = <<>>
    /\ selectorState' = [n \in SourceNames |-> "Selecting"]
    /\ lastCall' = [op |-> "reload", source |-> NoSource, word |-> Null,
                    wasLearned |-> FALSE, wasSkipped |-> FALSE, wasCompleted |-> FALSE,
                    saveFailed |-> FALSE]
    /\ lastSelect' = [called |-> FALSE, source |-> NoSource, word |-> Null]
    /\ UNCHANGED <<variant, storage, storageFull>>
    /\ UNCHANGED storeVars
    /\ UNCHANGED loadVars
    /\ startX' = 0 /\ currentX' = 0 /\ isDragging' = FALSE /\ swipedWords' = <<>>

ReloadNext ==
    \/ InitLocalStep \/ InitServerStep \/ InitMobileStep
    \/ SelectSourceLocalStep \/ SelectSourceServerStep \/ SelectSourceMobileStep
    \/ LearnedBtnStep \/ MarkLearnedBtnStep
    \/ TimerSequentialStep \/ TimerMobileStep
    \/ DeleteLocalStep \/ RefreshLocalStep
    \/ QuotaStep \/ ReloadStep

ReloadSpec == ReloadInit /\ [][ReloadNext]_vars

(* ===================== server.js: the word source store ================ *)
\* Text is modelled as a sequence of tokens: single characters, "\n", and one
\* token for each piece of JSON text ("[", "]", ",", "null", and one token
\* per array element: "red" stands for {"word": "red", ...}, "{}" for an
\* object without a word field).  A file name ends with its extension token.
isSpace(c) == c \in {" ", "\n"}

\* String.prototype.trim
trim(str) ==
    LET keep == {i \in 1..Len(str) : ~isSpace(str[i])}
    IN  IF keep = {} THEN <<>>
        ELSE SubSeq(str, CHOOSE i \in keep : \A k \in keep : i <= k,
                         CHOOSE i \in keep : \A k \in keep : k <= i)

\* content.split('\n')[0]
firstLine(content) ==
    LET nl == {i \in 1..Len(content) : content[i] = "\n"}
    IN  IF nl = {} THEN content
        ELSE SubSeq(content, 1, (CHOOSE i \in nl : \A k \in nl : i <= k) - 1)

\* content.split('\n').slice(1).join('\n')
restLines(content) ==
    LET nl == {i \in 1..Len(content) : content[i] = "\n"}
    IN  IF nl = {} THEN <<>>
        ELSE SubSeq(content, (CHOOSE i \in nl : \A k \in nl : i <= k) + 1, Len(content))

ElementTokens == {"red", "blue", "{}"}

\* JSON.parse(text): thrown = SyntaxError
JSONparse(text) ==
    LET t == SelectSeq(text, LAMBDA c : ~isSpace(c))
        inner == SubSeq(t, 2, Len(t) - 1)
        bad == [thrown |-> TRUE, kind |-> "none", items |-> <<>>]
    IN  IF Len(t) = 0 THEN bad
        ELSE IF Len(t) = 1
        THEN IF t[1] = "null" THEN [thrown |-> FALSE, kind |-> "null", items |-> <<>>]
             ELSE IF t[1] \in ElementTokens
                  THEN [thrown |-> FALSE, kind |-> "object", items |-> <<>>]
             ELSE bad
        ELSE IF t[1] # "[" \/ t[Len(t)] # "]" THEN bad
        ELSE IF Len(inner) = 0 THEN [thrown |-> FALSE, kind |-> "array", items |-> <<>>]
        ELSE IF /\ Len(inner) % 2 = 1
                /\ \A i \in 1..Len(inner) :
                      IF i % 2 = 1 THEN inner[i] \in ElementTokens ELSE inner[i] = ","
             THEN [thrown |-> FALSE, kind |-> "array",
                   items |-> [i \in 1..((Len(inner) + 1) \div 2) |-> inner[2 * i - 1]]]
        ELSE bad

\* JSON.stringify(words, null, 2) of an array
RECURSIVE stringifyItems(_)
stringifyItems(items) ==
    IF Len(items) = 0 THEN <<>>
    ELSE <<"\n", " ", " ", Head(items)>>
            \o (IF Len(items) > 1 THEN <<",">> ELSE <<>>)
            \o stringifyItems(Tail(items))

JSONstringify(items) ==
    IF Len(items) = 0 THEN <<"[", "]">>
    ELSE <<"[">> \o stringifyItems(items) \o <<"\n", "]">>

\* parseDataFile(content); thrown = JSON.parse threw
parseDataFile(content) ==
    LET first == trim(firstLine(content))
        hasLink == Len(first) >= 1 /\ first[1] = "#link:"
        link == IF hasLink THEN trim(Tail(first)) ELSE <<>>
        parsed == JSONparse(IF hasLink THEN restLines(content) ELSE content)
    IN  [thrown |-> parsed.thrown, link |-> link,
         words |-> [kind |-> parsed.kind, items |-> parsed.items]]

\* createDataFileContent(link, words)
createDataFileContent(link, words) ==
    (IF trim(link) # <<>> THEN <<"#link:", " ">> \o trim(link) \o <<"\n">> ELSE <<>>)
        \o JSONstringify(words)

(* ------------------------- server.js: routes ---------------------------- *)
lowerChar(c) == IF c = "A" THEN "a" ELSE IF c = "B" THEN "b" ELSE c
upperChar(c) == IF c = "a" THEN "A" ELSE IF c = "b" THEN "B" ELSE c
isWordChar(c) == c \in {"a", "b", "A", "B", "z"}

\* str.replace(/\s+/g, '-'): prevSpace = the character before was white space
RECURSIVE dashSpaces(_, _)
dashSpaces(str, prevSpace) ==
    IF Len(str) = 0 THEN <<>>
    ELSE IF isSpace(Head(str))
         THEN (IF prevSpace THEN <<>> ELSE <<"-">>) \o dashSpaces(Tail(str), TRUE)
         ELSE <<Head(str)>> \o dashSpaces(Tail(str), FALSE)

\* POST: name.toLowerCase().replace(/\s+/g, '-').replace(/[^a-z0-9-]/g, '') + '.data'
fileNameOf(name) ==
    LET lower == [i \in 1..Len(name) |-> lowerChar(name[i])]
        dashed == dashSpaces(lower, FALSE)
    IN  SelectSeq(dashed, LAMBDA c : c \in {"a", "b", "z", "-"}) \o <<".data">>

\* GET /api/sources: file.replace('.data', '').replace(/-/g, ' ')
\*                       .replace(/\b\w/g, l => l.toUpperCase())
sourceNameOf(file) ==
    LET ext == {i \in 1..Len(file) : file[i] = ".data"}
        cut == IF ext = {} THEN file
               ELSE LET e == CHOOSE i \in ext : \A k \in ext : i <= k
                    IN  SubSeq(file, 1, e - 1) \o SubSeq(file, e + 1, Len(file))
        spaced == [i \in 1..Len(cut) |-> IF cut[i] = "-" THEN " " ELSE cut[i]]
    IN  [i \in 1..Len(spaced) |->
            IF isWordChar(spaced[i]) /\ (i = 1 \/ ~isWordChar(spaced[i - 1]))
            THEN upperChar(spaced[i]) ELSE spaced[i]]

\* file.endsWith('.data')
endsWithData(file) == Len(file) >= 1 /\ file[Len(file)] = ".data"

\* a request body's words: missing, a non-array JSON value, or an array
MissingWords == [kind |-> "missing", items |-> <<>>]
ObjectWords == [kind |-> "object", items |-> <<>>]
ArrayWords(items) == [kind |-> "array", items |-> items]

\* !words || !Array.isArray(words)
notAnArray(words) == words.kind # "array"

\* GET /api/sources: a file whose parse throws, or whose parsed.words.length
\* throws (words null), is skipped
listedFile(fs, file) ==
    /\ endsWithData(file)
    /\ ~parseDataFile(fs[file]).thrown
    /\ parseDataFile(fs[file]).words.kind # "null"

getSources(fs) ==
    [files |-> fs,
     response |-> [op |-> "list", status |-> 200, success |-> TRUE,
                   sources |-> {[name |-> sourceNameOf(f), fileName |-> f,
                                 link |-> parseDataFile(fs[f]).link,
                                 words |-> parseDataFile(fs[f]).words]
                                : f \in {g \in DOMAIN fs : listedFile(fs, g)}}]]

\* GET /api/sources/:fileName: any exception answers 404
getSource(fs, fileName) ==
    [files |-> fs,
     response |->
        IF \/ fileName \notin DOMAIN fs
           \/ parseDataFile(fs[fileName]).thrown
           \/ parseDataFile(fs[fileName]).words.kind = "null"
        THEN [op |-> "get", fileName |-> fileName, status |-> 404, success |-> FALSE]
        ELSE [op |-> "get", fileName |-> fileName, status |-> 200, success |-> TRUE,
              link |-> parseDataFile(fs[fileName]).link,
              words |-> parseDataFile(fs[fileName]).words]]

\* POST /api/sources
postSource(fs, name, link, words) ==
    IF name = <<>> \/ notAnArray(words)
    THEN [files |-> fs,
          response |-> [op |-> "post", name |-> name, reqLink |-> link, reqWords |-> words,
                        status |-> 400, success |-> FALSE]]
    ELSE [files |-> Put(fs, fileNameOf(name), createDataFileContent(link, words.items)),
          response |-> [op |-> "post", name |-> name, reqLink |-> link, reqWords |-> words,
                        status |-> 200, success |-> TRUE,
                        fileName |-> fileNameOf(name), link |-> link,
                        totalWords |-> Len(words.items)]]

\* PUT /api/sources/:fileName
putSource(fs, fileName, link, words) ==
    IF notAnArray(words)
    THEN [files |-> fs,
          response |-> [op |-> "put", fileName |-> fileName, reqLink |-> link,
                        reqWords |-> words, status |-> 400, success |-> FALSE]]
    ELSE [files |-> Put(fs, fileName, createDataFileContent(link, words.items)),
          response |-> [op |-> "put", fileName |-> fileName, reqLink |-> link,
                        reqWords |-> words, status |-> 200, success |-> TRUE,
                        link |-> link, totalWords |-> Len(words.items)]]

\* DELETE /api/sources/:fileName: fs.unlink of an absent file throws
deleteSourceFile(fs, fileName) ==
    IF fileName \notin DOMAIN fs
    THEN [files |-> fs,
          response |-> [op |-> "delete", fileName |-> fileName,
                        status |-> 500, success |-> FALSE]]
    ELSE [files |-> Delete(fs, fileName),
          response |-> [op |-> "delete", fileName |-> fileName,
                        status |-> 200, success |-> TRUE]]

(* ---------------------- server.js: requests served -------------------- *)
\* request inputs
StoreNames == {<<>>, <<"A">>, <<"a">>, <<"A", " ", "B">>}
StoreLinks == {<<>>, <<" ", "u">>}
StoreWords == {MissingWords, ObjectWords, ArrayWords(<<>>), ArrayWords(<<"{}">>),
               ArrayWords(<<"red", "blue">>)}

\* files put into sources/ by hand before the server starts
BadJsonFile == <<"b", ".data">>
ObjectFile == <<"b", "b", ".data">>
NullFile == <<"b", "a", ".data">>
NoTermFile == <<"a", "b", ".data">>
TextFile == <<"a", ".txt">>
HandFile == <<"z", ".data">>

HandFolder ==
    [f \in {BadJsonFile, TextFile, HandFile} |->
        IF f = BadJsonFile THEN <<"[", "red">>
        ELSE IF f = TextFile THEN <<"[", "red", "]">>
        ELSE <<"#link:", "u", " ", "\n", "[", "red", ",", "blue", "]">>]

OddFolder ==
    [f \in {ObjectFile, NullFile, NoTermFile} |->
        IF f = ObjectFile THEN <<"{}">>
        ELSE IF f = NullFile THEN <<"null">>
        ELSE <<"[", "{}", "]">>]

StoreFolders == {NoFiles, HandFolder, OddFolder}

\* the file names requests address
StoreFiles ==
    {fileNameOf(n) : n \in StoreNames \ {<<>>}}
        \cup DOMAIN HandFolder \cup DOMAIN OddFolder
PutFiles == {BadJsonFile}
DeleteFiles == {fileNameOf(<<"A">>), BadJsonFile, NullFile}

\* the page variables while only the server is looked at
PageIdle ==
    /\ variant = "server"
    /\ booted = FALSE
    /\ sources = [n \in {} |-> <<>>]
    /\ progress = [n \in {} |-> EmptyProgress]
    /\ learnedWords = [n \in {} |-> <<>>]
    /\ currentSource = NoSource
    /\ currentWord = Null
    /\ screen = "loading"
    /\ timers = <<>>
    /\ selectorState = [n \in SourceNames |-> "Selecting"]
    /\ lastCall = Call("load", NoSource, Null)
    /\ lastSelect = [called |-> FALSE, source |-> NoSource, word |-> Null]
    /\ storage = [sources |-> sources, progress |-> progress,
                  learned |-> learnedWords, current |-> NoSource]
    /\ storageFull = FALSE

StoreInit ==
    /\ PageIdle
    /\ LoadIdle
    /\ GestureIdle
    /\ files \in StoreFolders
    /\ response = NoResponse

\* the route handler answers res and leaves the folder as it says
Serve(res) ==
    /\ files' = res.files
    /\ response' = res.response
    /\ UNCHANGED pageVars
    /\ UNCHANGED persistVars
    /\ UNCHANGED loadVars
    /\ UNCHANGED gestureVars

ListStep == Serve(getSources(files))

GetStep == \E f \in StoreFiles : Serve(getSource(files, f))

PostStep ==
    \E n \in StoreNames, l \in StoreLinks, w \in StoreWords : Serve(postSource(files, n, l, w))

PutStep ==
    \E f \in PutFiles, l \in StoreLinks, w \in StoreWords : Serve(putSource(files, f, l, w))

DeleteStep == \E f \in DeleteFiles : Serve(deleteSourceFile(files, f))

StoreNext == ListStep \/ GetStep \/ PostStep \/ PutStep \/ DeleteStep

StoreSpec == StoreInit /\ [][StoreNext]_vars

(* ------------------------------- claims -------------------------------- *)
\* every word of source s is learned, compared case-insensitively
AllLearned(s) ==
    \A i \in 1..Len(sources[s]) : someLower(learnedOf(s), toLowerCase(sources[s][i]))

\* the last handler called loadNextWord on a source with at least one word
SelectedOnSource ==
    /\ lastSelect.called
    /\ lastSelect.source \in DOMAIN sources
    /\ Len(sources[lastSelect.source]) >= 1

\* C1: in every reachable state no term is, compared case-insensitively, in
\* both the learned list and the skipped list of the same source.
C1_LearnedSkippedDisjoint ==
    \A s \in DOMAIN progress :
        \A i \in 1..Len(progress[s].learned), j \in 1..Len(progress[s].skipped) :
            toLowerCase(progress[s].learned[i]) # toLowerCase(progress[s].skipped[j])

\* C1 witness: a term that was skipped has just been marked learned while the
\* source holds both learned and skipped entries.
C1_Witness ==
    /\ lastCall.op \in {"learnedBtn", "swipeLeft", "timerLearn"}
    /\ lastCall.wasSkipped
    /\ lastCall.source \in DOMAIN progress
    /\ progress[lastCall.source].learned # <<>>
    /\ progress[lastCall.source].skipped # <<>>

\* C2: starting from empty progress the learned count of every source is 0,
\* and whenever selectNext runs on a source that has a word whose term is not
\* learned, it returns a word (random and sequential policy alike).
C2_SelectsWhileUnlearned ==
    /\ lastCall.op = "init" => \A s \in DOMAIN sources : Len(learnedOf(s)) = 0
    /\ (SelectedOnSource /\ ~AllLearned(lastSelect.source)) => lastSelect.word \in Terms

\* C2 witness: selectNext returned a word on a source of two words of which
\* one is learned.
C2_Witness ==
    /\ SelectedOnSource
    /\ Len(sources[lastSelect.source]) = 2
    /\ Len(learnedOf(lastSelect.source)) = 1
    /\ ~AllLearned(lastSelect.source)
    /\ lastSelect.word \in Terms

\* C3: when the learned list of a non-empty source covers every term of its
\* words, selectNext returns no word and the completion screen is shown.
C3_CompletedWhenAllLearned ==
    (SelectedOnSource /\ AllLearned(lastSelect.source))
        => (lastSelect.word = Null /\ screen = "completed"
            /\ selectorState[lastSelect.source] = "Completed")

\* C3 witness: selectNext ran on a non-empty source all of whose words are
\* learned, right after the last of them was marked.
C3_Witness ==
    /\ SelectedOnSource
    /\ AllLearned(lastSelect.source)
    /\ lastCall.op \in {"learnedBtn", "timerLearn", "timerLoad"}
    /\ screen = "completed"

\* C4: selectNext never returns a word whose term is in the learned list of
\* the current source at the moment of the call; under the random policy the
\* possible results are exactly the unlearned words of the source.
C4_NeverReturnsLearned ==
    /\ (SelectedOnSource /\ lastSelect.word # Null) =>
          /\ \E i \in 1..Len(sources[lastSelect.source]) :
                sources[lastSelect.source][i] = lastSelect.word
          /\ ~someLower(learnedOf(lastSelect.source), toLowerCase(lastSelect.word))
    /\ (variant = "mobile" /\ currentSource \in DOMAIN sources) =>
          {getRandomWord(sources, learnedWords, currentSource, r) : r \in RandomValues} \ {Null}
             = {sources[currentSource][i] : i \in
                   {j \in 1..Len(sources[currentSource]) :
                       ~someLower(learnedOf(currentSource), toLowerCase(sources[currentSource][j]))}}

\* C4 witness: the random policy returned the one unlearned word of a source
\* of two words.
C4_Witness ==
    /\ variant = "mobile"
    /\ SelectedOnSource
    /\ Len(sources[lastSelect.source]) = 2
    /\ Len(learnedOf(lastSelect.source)) = 1
    /\ lastSelect.word \in Terms
    /\ toLowerCase(lastSelect.word) # toLowerCase(learnedOf(lastSelect.source)[1])

\* C5: a reset (the completion screen's button of app-sources.js and
\* app-sources-server.js, resetBtn of app-sources-mobile.js) on a Completed
\* source with at least one word leaves an empty record, and the selectNext
\* it runs returns a word and leaves Completed.
C5_ResetRestores ==
    (/\ lastCall.op \in {"resetProgressBtn", "resetBtn"}
     /\ lastCall.wasCompleted
     /\ lastCall.source \in DOMAIN sources
     /\ Len(sources[lastCall.source]) >= 1)
    => /\ lastSelect.called
       /\ lastSelect.source = lastCall.source
       /\ lastSelect.word \in Terms
       /\ currentWord = lastSelect.word
       /\ screen = "card"
       /\ selectorState[lastCall.source] = "Selecting"
       /\ IF variant = "mobile"
          THEN learnedWords[lastCall.source] = <<>>
          ELSE progress[lastCall.source] = EmptyProgress

\* C5 witness: a reset ran on a Completed, non-empty source.
C5_Witness ==
    /\ lastCall.op \in {"resetProgressBtn", "resetBtn"}
    /\ lastCall.wasCompleted
    /\ lastCall.source \in DOMAIN sources
    /\ Len(sources[lastCall.source]) >= 1
    /\ lastSelect.word \in Terms

\* the handlers that call markWordAsLearned / markWordAsSkipped / a reset
MarkLearnedOps == {"learnedBtn", "swipeLeft", "timerLearn", "markLearnedBtn"}
MarkSkippedOps == {"skipBtn", "swipeRight", "timerSkip"}
ResetOps == {"resetProgressBtn", "resetSource", "resetBtn"}

\* the source the last handler ran on has a record for the mark to update
MarkedOnRecord ==
    /\ lastCall.word # Null
    /\ variant = "mobile" \/ hasCurrentSourceProgress(progress, lastCall.source)

\* C6 as stated: a source that selectNext reported Completed leaves Completed
\* (selectNext returns a word for it again) only in a step that resets it.
C6_TerminalUntilReset ==
    [][\A s \in SourceNames :
          (selectorState[s] # "Selecting" /\ selectorState'[s] = "Selecting")
              => (lastCall'.op \in ResetOps /\ lastCall'.source = s)]_vars

\* C6 amended: a source that selectNext reported Completed, and of which no
\* learned entry has been unmarked since, leaves Completed only in a step
\* that resets it; re-selecting it, refresh, unmarking a skipped word and
\* marking words do not make selectNext return a word for it.
C6_TerminalUntilResetOrUnmark ==
    [][\A s \in SourceNames :
          (selectorState[s] = "Completed" /\ selectorState'[s] = "Selecting")
              => (lastCall'.op \in ResetOps /\ lastCall'.source = s)]_vars

\* C6 witness: a Completed source was re-selected or refreshed and selectNext
\* reported Completed again.
C6_Witness ==
    /\ lastCall.op \in {"refresh", "selectSource", "timerLoad"}
    /\ lastCall.wasCompleted
    /\ lastSelect.called
    /\ lastSelect.source = lastCall.source
    /\ lastSelect.word = Null
    /\ selectorState[lastCall.source] = "Completed"
    /\ Len(getSourceWords(sources, lastCall.source)) >= 1

\* C7: no learned list ever holds two entries that are equal
\* case-insensitively, and markLearned(S, t) appends t, as spelled, when no
\* entry of learned(S) equals it case-insensitively and otherwise leaves
\* learned(S) as it is (so a repeated or differently-cased call changes
\* nothing and the first spelling stays).
C7_MarkLearnedIdempotent ==
    [][/\ \A s \in DOMAIN progress' \cup DOMAIN learnedWords' :
             \A i, j \in 1..Len(learnedOf(s)') :
                 toLowerCase(learnedOf(s)'[i]) = toLowerCase(learnedOf(s)'[j]) => i = j
       /\ (/\ lastCall'.op \in MarkLearnedOps
           /\ currentWord # Null
           /\ variant = "mobile" \/ hasCurrentSourceProgress(progress, currentSource))
          => learnedOf(currentSource)' =
                IF \E i \in 1..Len(learnedOf(currentSource)) :
                       toLowerCase(learnedOf(currentSource)[i]) = toLowerCase(currentWord)
                THEN learnedOf(currentSource)
                ELSE Append(learnedOf(currentSource), currentWord)]_vars

\* C7 witness: markLearned ran with a spelling that differs in case from the
\* entry already stored, and the stored entry is still the only one.
C7_Witness ==
    /\ lastCall.op \in MarkLearnedOps
    /\ MarkedOnRecord
    /\ lastCall.wasLearned
    /\ Len(learnedOf(lastCall.source)) = 1
    /\ learnedOf(lastCall.source)[1] # lastCall.word
    /\ toLowerCase(learnedOf(lastCall.source)[1]) = toLowerCase(lastCall.word)

\* C8: right after markLearned(S, t) on a source with a record, t is in
\* learned(S) and no case-insensitive match of t is in skipped(S).
C8_LearnedNotSkipped ==
    (lastCall.op \in MarkLearnedOps /\ MarkedOnRecord)
        => /\ someLower(learnedOf(lastCall.source), toLowerCase(lastCall.word))
           /\ ~someLower(skippedOf(lastCall.source), toLowerCase(lastCall.word))

\* C8 witness: markLearned ran on a term that was in skipped and not in learned.
C8_Witness ==
    /\ lastCall.op \in MarkLearnedOps
    /\ MarkedOnRecord
    /\ lastCall.wasSkipped
    /\ ~lastCall.wasLearned
    /\ someLower(learnedOf(lastCall.source), toLowerCase(lastCall.word))

\* C9: markSkipped(S, t) appends t to skipped(S) when t is in neither list and
\* otherwise changes neither list; it never changes learned(S), the record of
\* another source, or the set of records.
C9_MarkSkippedFrame ==
    [][(lastCall'.op \in MarkSkippedOps /\ currentWord # Null)
          => /\ DOMAIN progress' = DOMAIN progress
             /\ learnedWords' = learnedWords
             /\ \A n \in DOMAIN progress : n # currentSource => progress'[n] = progress[n]
             /\ hasCurrentSourceProgress(progress, currentSource)
                   => /\ progress'[currentSource].learned = progress[currentSource].learned
                      /\ progress'[currentSource].skipped =
                            IF \/ someLower(progress[currentSource].learned, toLowerCase(currentWord))
                               \/ someLower(progress[currentSource].skipped, toLowerCase(currentWord))
                            THEN progress[currentSource].skipped
                            ELSE Append(progress[currentSource].skipped, currentWord)]_vars

\* C9 witness: markSkipped ran on a term that was learned, and skipped(S)
\* does not hold it.
C9_Witness ==
    /\ lastCall.op \in MarkSkippedOps
    /\ MarkedOnRecord
    /\ lastCall.wasLearned
    /\ ~someLower(skippedOf(lastCall.source), toLowerCase(lastCall.word))
    /\ someLower(learnedOf(lastCall.source), toLowerCase(lastCall.word))

\* C10: unmarkLearned(S, t) leaves in learned(S) exactly the entries that do
\* not equal t case-insensitively, in their order, and leaves every other
\* learned list alone; a call whose t matches no entry changes nothing; after
\* it a word of S with term t is no longer excluded by selectNext on S.
C10_UnmarkLearned ==
    [][/\ \A S \in SourceNames \cup {NoSource}, t \in Terms :
          (lastCall'.op = "unlearn" /\ lastCall'.source = S /\ lastCall'.word = t) =>
             LET words == getSourceWords(sources', S)
             IN  /\ learnedOf(S)' =
                       SelectSeq(learnedOf(S), LAMBDA w : toLowerCase(w) # toLowerCase(t))
                 /\ \A n \in (DOMAIN progress \cup DOMAIN learnedWords) \ {S} :
                       learnedOf(n)' = learnedOf(n)
                 /\ \A i \in 1..Len(words) :
                       toLowerCase(words[i]) = toLowerCase(t) =>
                          IF variant = "mobile"
                          THEN \E r \in RandomValues :
                                  getRandomWord(sources', learnedWords', S, r) = words[i]
                          ELSE scanFrom(words, learnedOf(S)', i - 1) = i - 1
       /\ \A s \in DOMAIN learnedWords', t \in Terms :
             ~someLower(learnedWords'[s], toLowerCase(t))
                => unmarkWordAsLearned(learnedWords', s, t) = learnedWords'
       /\ \A s \in DOMAIN progress', t \in Terms :
             ~someLower(progress'[s].learned, toLowerCase(t))
                => unlearn(progress', s, t) = progress']_vars

\* C10 witness: a learned term of a Completed source was unmarked and is no
\* longer in its learned list.
C10_Witness ==
    /\ lastCall.op = "unlearn"
    /\ lastCall.wasLearned
    /\ lastCall.wasCompleted
    /\ ~someLower(learnedOf(lastCall.source), toLowerCase(lastCall.word))
    /\ selectorState[lastCall.source] = "Unmarked"

\* C11: under the sequential policy selectNext returns the entry of
\* source.words with the smallest index whose term is not, compared
\* case-insensitively, in learned, and leaves progress.currentIndex equal to
\* that (0-based) index; when there is no such entry it returns no word and
\* leaves currentIndex as it was before the call (0 after a reset or for a
\* record created by the same handler).
C11_SequentialFirstUnlearned ==
    [][\A S \in SourceNames :
          (/\ variant # "mobile"
           /\ lastSelect'.called
           /\ lastSelect'.source = S
           /\ S \in DOMAIN sources'
           /\ S \in DOMAIN progress')
          => LET words == sources'[S]
                 unlearnedAt == {i \in 1..Len(words) :
                                   \A k \in 1..Len(progress'[S].learned) :
                                       toLowerCase(progress'[S].learned[k]) # toLowerCase(words[i])}
             IN  IF unlearnedAt = {}
                 THEN /\ lastSelect'.word = Null
                      /\ progress'[S].currentIndex =
                            IF S \in DOMAIN progress /\ lastCall'.op \notin ResetOps
                            THEN progress[S].currentIndex ELSE 0
                 ELSE \E i \in unlearnedAt :
                         /\ \A j \in unlearnedAt : i <= j
                         /\ lastSelect'.word = words[i]
                         /\ currentWord' = words[i]
                         /\ progress'[S].currentIndex = i - 1]_vars

\* C11 witness: the sequential selectNext skipped a learned first word,
\* returned the second word and left currentIndex at 1.
C11_Witness ==
    /\ variant # "mobile"
    /\ SelectedOnSource
    /\ lastSelect.source \in DOMAIN progress
    /\ Len(sources[lastSelect.source]) = 2
    /\ lastSelect.word = sources[lastSelect.source][2]
    /\ progress[lastSelect.source].currentIndex = 1
    /\ someLower(progress[lastSelect.source].learned, toLowerCase(sources[lastSelect.source][1]))

\* the learned / total counts shown for source s (updateSourceButton of
\* app-sources-mobile.js, updateProgressInfo of the other two)
learnedCount(s) ==
    IF variant = "mobile" THEN getLearnedCount(learnedWords, s) ELSE Len(learnedOf(s))

totalCount(s) == getTotalWords(sources, s)

validWordList(words) ==
    /\ words.kind = "array"
    /\ words.items # <<>>
    /\ \A i \in 1..Len(words.items) : words.items[i] # "{}"

\* C13: right after a successful POST /api/sources of (name, link, words),
\* GET /api/sources lists a source under that same name with the saved word
\* list, in order, and the saved link, and GET /api/sources/:fileName with
\* the returned file name answers the same words and link; and
\* parseDataFile(createDataFileContent(link, words)) returns the words and
\* the trimmed link.
C13_StoreRoundTrip ==
    [][/\ (response.op = "post" /\ response.success /\ response'.op = "list")
             => \E src \in response'.sources :
                   /\ src.name = response.name
                   /\ src.fileName = response.fileName
                   /\ src.words = response.reqWords
                   /\ src.link = response.reqLink
       /\ (/\ response.op = "post" /\ response.success
           /\ response'.op = "get" /\ response'.fileName = response.fileName)
             => /\ response'.success
                /\ response'.words = response.reqWords
                /\ response'.link = response.reqLink
       /\ \A l \in StoreLinks, w \in StoreWords :
             w.kind = "array"
                => parseDataFile(createDataFileContent(l, w.items))
                      = [thrown |-> FALSE, link |-> trim(l), words |-> w]]_vars

\* C14: a POST or PUT whose words are missing, not an array, an empty array
\* or hold an element without a term answers 400 and leaves the folder as it
\* was.
C14_SaveRejectsInvalid ==
    [][(response'.op \in {"post", "put"} /\ ~validWordList(response'.reqWords))
          => /\ response'.status = 400
             /\ ~response'.success
             /\ files' = files]_vars

\* C15: GET /api/sources/:fileName and DELETE /api/sources/:fileName on a
\* file name that is not in the folder answer 404 with success false and
\* leave the folder as it was.
C15_AbsentIsNotFound ==
    [][(response'.op \in {"get", "delete"} /\ response'.fileName \notin DOMAIN files)
          => /\ response'.status = 404
             /\ ~response'.success
             /\ files' = files]_vars

\* C16: GET /api/sources always succeeds and lists exactly the .data files
\* whose content parses as an array of entries that each have a term; a
\* file with invalid JSON, with JSON that is not an array, or with an entry
\* without a term is not listed.
C16_ListingSkipsMalformed ==
    response.op = "list"
        => /\ response.success
           /\ {src.fileName : src \in response.sources}
                 = {f \in DOMAIN files :
                      /\ endsWithData(f)
                      /\ ~parseDataFile(files[f]).thrown
                      /\ parseDataFile(files[f]).words.kind = "array"
                      /\ \A i \in 1..Len(parseDataFile(files[f]).words.items) :
                            parseDataFile(files[f]).words.items[i] # "{}"}

\* C17: when localStorage.setItem throws during a handler that runs
\* ensureInitialized, markLearned, markSkipped, unmarkLearned or reset, the
\* handler still runs to its end (the selection it makes, or the timer it
\* sets, follows the failed write), the in-memory record of the source holds
\* the mutation, and the selection made in that handler follows the
\* in-memory record: it returns no word exactly when every word of the
\* source is in the in-memory learned list, and never a learned word.
C17_FailedWriteKeepsMemory ==
    [][\A S \in SourceNames, t \in Terms :
          (lastCall'.saveFailed /\ lastCall'.source = S)
          => /\ (lastCall'.op \in MarkLearnedOps /\ lastCall'.word = t)
                => /\ someLower(learnedOf(S)', toLowerCase(t))
                   /\ ~someLower(skippedOf(S)', toLowerCase(t))
             /\ (lastCall'.op \in MarkSkippedOps /\ lastCall'.word = t)
                => \/ someLower(skippedOf(S)', toLowerCase(t))
                   \/ someLower(learnedOf(S)', toLowerCase(t))
             /\ (lastCall'.op = "unlearn" /\ lastCall'.word = t)
                => ~someLower(learnedOf(S)', toLowerCase(t))
             /\ lastCall'.op \in ResetOps
                => learnedOf(S)' = <<>> /\ skippedOf(S)' = <<>>
             /\ lastCall'.op \in {"learnedBtn", "skipBtn", "timerLearn", "timerSkip",
                                  "resetProgressBtn", "resetBtn"}
                => lastSelect'.called
             /\ lastCall'.op \in {"swipeLeft", "swipeRight", "markLearnedBtn"}
                => timers' = Append(timers, "load")
             /\ (lastSelect'.called /\ lastSelect'.source = S /\ S \in DOMAIN sources')
                => /\ lastSelect'.word = Null
                      <=> \A i \in 1..Len(sources'[S]) :
                              someLower(learnedOf(S)', toLowerCase(sources'[S][i]))
                   /\ lastSelect'.word # Null
                      => /\ \E i \in 1..Len(sources'[S]) : sources'[S][i] = lastSelect'.word
                         /\ ~someLower(learnedOf(S)', toLowerCase(lastSelect'.word))]_vars
    /\ [][(lastCall'.saveFailed /\ lastCall'.op \in {"init", "selectSource"})
          => /\ currentSource' \in DOMAIN sources'
             /\ IF variant = "mobile"
                THEN currentSource' \in DOMAIN learnedWords'
                ELSE hasCurrentSourceProgress(progress', currentSource')]_vars

\* C17 witness: a mark-learned handler whose write failed left the term in
\* the in-memory learned list and not in localStorage, and the selection it
\* made returned another word.
C17_Witness ==
    /\ lastCall.saveFailed
    /\ lastCall.op \in MarkLearnedOps
    /\ lastCall.word \in Terms
    /\ ~lastCall.wasLearned
    /\ someLower(learnedOf(lastCall.source), toLowerCase(lastCall.word))
    /\ LET stored == IF variant = "mobile" THEN storage.learned ELSE storage.progress IN
       \/ lastCall.source \notin DOMAIN stored
       \/ ~someLower(IF variant = "mobile" THEN stored[lastCall.source]
                     ELSE stored[lastCall.source].learned, toLowerCase(lastCall.word))
    /\ lastSelect.called
    /\ lastSelect.source = lastCall.source
    /\ lastSelect.word \in Terms
    /\ toLowerCase(lastSelect.word) # toLowerCase(lastCall.word)

\* C18: after a source has been deleted successfully (the delete handler ran
\* and the source is gone from sources), no progress record of that name is
\* left, neither in memory (progress, learnedWords) nor in localStorage
\* (the progress and learned keys), in every variant.
C18_DeleteRemovesRecord ==
    (lastCall.op = "deleteSource" /\ lastCall.source \notin DOMAIN sources)
    => /\ lastCall.source \notin DOMAIN progress
       /\ lastCall.source \notin DOMAIN learnedWords
       /\ lastCall.source \notin DOMAIN storage.progress
       /\ lastCall.source \notin DOMAIN storage.learned

(* ============ the import dialog and the word-list editor =============== *)
\* app-sources.js imports a whole source (validateJSON, addSource); the
\* server page edits the list of the source being edited and posts it
\* (addWordToSource, importBulkJson, deleteWordFromSource).  An entry is its
\* `word` field; NoTerm is an entry whose word is missing or ''.
MaxEditWords == 3       \* longest word list the editor is driven to

NoTerm == ""
EditTerms == {"red", "Red", "blue", NoTerm}
EditLists ==
    {<<>>} \cup {<<a>> : a \in EditTerms} \cup {<<a, b>> : a, b \in EditTerms}

\* validateJSON(jsonString) for a JSON array: non-empty, every word.word a
\* non-empty string
validateJSON(data) == Len(data) > 0 /\ \A i \in 1..Len(data) : data[i] # NoTerm

\* addSource(name, words): sources[name] = { words, ... }
addSource(srcs, name, words) ==
    IF name = NoSource \/ Len(words) = 0 THEN srcs ELSE Put(srcs, name, words)

\* importBtn click: validateJSON, then addSource (overwriting a source of
\* the same name)
importSource(srcs, sourceName, data) ==
    IF validateJSON(data) THEN addSource(srcs, sourceName, data) ELSE srcs

\* addWordToSource(): the trimmed word must be non-empty; source.words.push
addWordToSource(srcs, editing, word) ==
    IF word = NoTerm THEN srcs ELSE [srcs EXCEPT ![editing] = Append(@, word)]

\* validateBulkJson(): at least one entry, every required field truthy
validateBulkJson(words) == Len(words) > 0 /\ \A i \in 1..Len(words) : words[i] # NoTerm

\* importBulkJson(): words.forEach(word => source.words.push(newWord))
importBulkJson(srcs, editing, words) ==
    IF validateBulkJson(words) THEN [srcs EXCEPT ![editing] = @ \o words] ELSE srcs

\* deleteWordFromSource(index): source.words.splice(index, 1)
deleteWordFromSource(srcs, editing, index) ==
    [srcs EXCEPT ![editing] = SubSeq(@, 1, index) \o SubSeq(@, index + 2, Len(@))]

\* the page is up with two well-formed sources; only the lists are edited.
\* The one word of source A has been marked learned or not (in progress by
\* app-sources.js, in learnedWords by the page with the editor).
EditInit ==
    /\ variant \in {"local", "server"}
    /\ booted = TRUE
    /\ sources = [n \in SourceNames |-> IF n = "A" THEN <<"red">> ELSE OtherWords]
    /\ \E learnt \in {<<>>, <<"red">>} :
          /\ progress = [n \in SourceNames |->
                           IF n = "A" /\ variant = "local"
                           THEN [EmptyProgress EXCEPT !.learned = learnt]
                           ELSE EmptyProgress]
          /\ learnedWords = IF variant = "server" /\ learnt # <<>>
                            THEN [n \in {"A"} |-> learnt]
                            ELSE [n \in {} |-> <<>>]
    /\ currentSource = NoSource
    /\ currentWord = Null
    /\ screen = "empty"
    /\ timers = <<>>
    /\ selectorState = [n \in SourceNames |-> "Selecting"]
    /\ lastCall = Call("load", NoSource, Null)
    /\ lastSelect = [called |-> FALSE, source |-> NoSource, word |-> Null]
    /\ files = NoFiles
    /\ response = NoResponse
    /\ storage = [sources |-> sources, progress |-> progress,
                  learned |-> learnedWords, current |-> NoSource]
    /\ storageFull = FALSE
    /\ LoadIdle
    /\ GestureIdle

\* the editor handler `op` on source n leaves the word lists srcs; when it
\* got as far as saving (tried), app-sources.js wrote the sources key
\* (saveSources) and the server page posted the list (saveSourceToServer),
\* which returned ok
Edited(srcs, op, n, tried, ok) ==
    LET posted == postSource(files, <<n>>, <<>>, ArrayWords(srcs[n]))
        saved == tried /\ ok
    IN
    /\ \A k \in DOMAIN srcs : Len(srcs[k]) <= MaxEditWords
    /\ sources' = srcs
    /\ lastCall' = [Call(op, n, Null) EXCEPT !.saveFailed = tried /\ ~ok]
    /\ storage' = IF saved /\ variant = "local"
                  THEN [storage EXCEPT !.sources = srcs] ELSE storage
    /\ files' = IF saved /\ variant = "server" THEN posted.files ELSE files
    /\ response' = IF saved /\ variant = "server" THEN posted.response ELSE response
    /\ UNCHANGED <<variant, booted, progress, learnedWords, currentSource, currentWord,
                   screen, timers, lastSelect, selectorState, storageFull>>
    /\ UNCHANGED loadVars
    /\ UNCHANGED gestureVars

\* let currentEditingSource: the editor is open on source A
currentEditingSource == "A"

ImportSourceStep ==
    /\ variant = "local"
    /\ \E n \in SourceNames, data \in EditLists :
          Edited(importSource(sources, n, data), "importSource", n, validateJSON(data), TRUE)

AddWordStep ==
    /\ variant = "server"
    /\ \E n \in {currentEditingSource}, w \in EditTerms, ok \in BOOLEAN :
          Edited(addWordToSource(sources, n, w), "addWordToSource", n, w # NoTerm, ok)

ImportBulkStep ==
    /\ variant = "server"
    /\ \E n \in {currentEditingSource}, words \in EditLists, ok \in BOOLEAN :
          Edited(importBulkJson(sources, n, words), "importBulkJson", n,
                 validateBulkJson(words), ok)

DeleteWordStep ==
    /\ variant = "server"
    /\ \E n \in {currentEditingSource} :
          \E i \in 0..(Len(sources[n]) - 1), ok \in BOOLEAN :
              Edited(deleteWordFromSource(sources, n, i), "deleteWordFromSource", n, TRUE, ok)

EditNext == ImportSourceStep \/ AddWordStep \/ ImportBulkStep \/ DeleteWordStep

EditSpec == EditInit /\ [][EditNext]_vars

\* C19: in every reachable state each word of every source has a non-empty
\* term and no two words of one source have terms that are equal
\* case-insensitively; import, single-word add, bulk add, word delete and
\* whole-source overwrite preserve this.
C19_TermsUniqueNonEmpty ==
    \A s \in DOMAIN sources :
        /\ \A i \in 1..Len(sources[s]) : sources[s][i] # NoTerm
        /\ \A i, j \in 1..Len(sources[s]) :
              i # j => toLowerCase(sources[s][i]) # toLowerCase(sources[s][j])

(* ================= App.jsx: loading a word on request ================== *)
\* loadSpecificWord(term) awaits fetchDictionary, then (in
\* setFromDictionary) fetchVietnameseMeanings, calls setWord, and starts
\* Promise.all([fetchRelatedPOS, fetchSynonyms]) whose .then calls
\* setRelated / setSyns.  The chips that call it stay clickable while a load
\* is pending.  `call` numbers the calls in the order they were made.
MaxLoads == 3           \* loadSpecificWord is called at most this often
LoadTerms == {"red", "blue"}

\* loadSpecificWord(term) up to `await fetchDictionary(term)`
loadSpecificWord(reqs, term, call) ==
    reqs \cup {[call |-> call, term |-> term, stage |-> "dictionary"]}

\* the request moves on to its next await
awaitNext(reqs, req, stage) == (reqs \ {req}) \cup {[req EXCEPT !.stage = stage]}

\* the page shows no sources page state while App.jsx is looked at
LoadInit ==
    /\ PageIdle
    /\ LoadIdle
    /\ GestureIdle
    /\ files = NoFiles
    /\ response = NoResponse

Loaded ==
    /\ UNCHANGED pageVars
    /\ UNCHANGED storeVars
    /\ UNCHANGED persistVars
    /\ UNCHANGED gestureVars
    /\ UNCHANGED isLoading

\* a chip or a seen-list entry is clicked
LoadSpecificWordStep ==
    /\ issued < MaxLoads
    /\ \E term \in LoadTerms :
          requests' = loadSpecificWord(requests, term, issued + 1)
    /\ issued' = issued + 1
    /\ UNCHANGED <<appWord, related, seen>>
    /\ Loaded

\* fetchDictionary resolves: with an entry, setFromDictionary goes on to
\* await fetchVietnameseMeanings; with none, the call ends in setError
DictionaryStep ==
    /\ \E req \in requests, found \in BOOLEAN :
          /\ req.stage = "dictionary"
          /\ requests' = IF found THEN awaitNext(requests, req, "meanings")
                         ELSE requests \ {req}
    /\ UNCHANGED <<appWord, related, issued, seen>>
    /\ Loaded

\* fetchVietnameseMeanings resolves: setWord({ text: candidate, ... }) and
\* the related / synonym fetches start
SetFromDictionaryStep ==
    /\ \E req \in requests :
          /\ req.stage = "meanings"
          /\ appWord' = [text |-> req.term, call |-> req.call]
          /\ requests' = awaitNext(requests, req, "related")
    /\ UNCHANGED <<related, issued, seen>>
    /\ Loaded

\* Promise.all resolves: setRelated(rel); setSyns(syn)
SetRelatedStep ==
    /\ \E req \in requests :
          /\ req.stage = "related"
          /\ related' = [text |-> req.term, call |-> req.call]
          /\ requests' = requests \ {req}
    /\ UNCHANGED <<appWord, issued, seen>>
    /\ Loaded

LoadNext == LoadSpecificWordStep \/ DictionaryStep \/ SetFromDictionaryStep \/ SetRelatedStep

LoadSpec == LoadInit /\ [][LoadNext]_vars

\* C20: a response of an earlier load that arrives after the response of a
\* later load does not overwrite it: the displayed word and the displayed
\* related-word / synonym data are never replaced by those of a call made
\* earlier than the call they came from.
C20_StaleDiscarded ==
    [][appWord'.call >= appWord.call /\ related'.call >= related.call]_vars

(* ============ App.jsx: the seen set and loading a new word ============= *)
\* A handler is a closure of the render that created it: the `seen` it
\* reads is the Set of that render, whatever setSeen was called with since.
\* A loadWord call in flight is recorded with the Set its closure holds.
DatamuseWords == {"red", "Red", "blue", "sky"}  \* what the Datamuse lists hold

\* fetchDatamuseCandidate(seenSet): the picks Math.random() can make among
\* the words whose lower case is not in seenSet, lower-cased
fetchDatamuseCandidate(seenSet) ==
    {toLowerCase(w) : w \in {c \in DatamuseWords : toLowerCase(c) \notin seenSet}}

\* addToSeen(w): next = new Set(seen); next.add(lower); setSeen(next)
addToSeen(seenSet, w) == IF w = Null THEN seenSet ELSE seenSet \cup {toLowerCase(w)}

\* loadWord() of a render whose `seen` is seenSet, up to its first await
loadWord(reqs, seenSet, call) == reqs \cup {[call |-> call, seenSet |-> seenSet]}

\* the page has mounted with the stored seen set; useEffect called loadWord
SeenInit ==
    /\ PageIdle
    /\ files = NoFiles
    /\ response = NoResponse
    /\ seen \in {{}, {"blue"}, {"red", "blue", "sky"}}
    /\ appWord = NoWord
    /\ related = NoWord
    /\ issued = 1
    /\ requests = loadWord({}, seen, 1)
    /\ isLoading = FALSE
    /\ GestureIdle

SeenStepFrame ==
    /\ UNCHANGED pageVars
    /\ UNCHANGED storeVars
    /\ UNCHANGED persistVars
    /\ UNCHANGED gestureVars
    /\ UNCHANGED <<related, isLoading>>

\* handleSwipeLeft(): addToSeen(word.text), 120 ms, then loadWord() of the
\* same closure
HandleSwipeLeftStep ==
    /\ issued < MaxLoads
    /\ appWord.text # Null
    /\ seen' = addToSeen(seen, appWord.text)
    /\ requests' = loadWord(requests, seen, issued + 1)
    /\ issued' = issued + 1
    /\ UNCHANGED appWord
    /\ SeenStepFrame

\* handleRemoveSeen(item)
HandleRemoveSeenStep ==
    /\ \E item \in seen : seen' = seen \ {item}
    /\ UNCHANGED <<appWord, requests, issued>>
    /\ SeenStepFrame

\* loadWord() finishes: a candidate with a dictionary entry is shown
\* (setFromDictionary), or no candidate is left and setError is called
LoadWordStep ==
    /\ \E req \in requests :
          /\ requests' = requests \ {req}
          /\ \/ \E candidate \in fetchDatamuseCandidate(req.seenSet) :
                    appWord' = [text |-> candidate, call |-> req.call]
             \/ /\ fetchDatamuseCandidate(req.seenSet) = {}
                /\ UNCHANGED appWord
    /\ UNCHANGED <<seen, issued>>
    /\ SeenStepFrame

SeenNext == HandleSwipeLeftStep \/ HandleRemoveSeenStep \/ LoadWordStep

SeenSpec == SeenInit /\ [][SeenNext]_vars

\* C21: the word that loadWord shows is never a member of the seen set as
\* it stands when the word is chosen; in particular the load started by a
\* left swipe never shows the word that was just swiped.
C21_NextWordNotSeen ==
    [][appWord'.call # appWord.call => appWord'.text \notin seen']_vars

\* C22: with a working localStorage, after every handler the value stored
\* under the progress key equals the in-memory progress map (the learned
\* key and learnedWords in app-sources-mobile.js), so a reload restores the
\* current learned and skipped lists.
C22_StoredEqualsMemory ==
    ~storageFull => storage.progress = progress /\ storage.learned = learnedWords

\* C22 witness: a mark-learned handler has run with a working localStorage
\* and the stored record of its source holds the term.
C22_Witness ==
    /\ ~storageFull
    /\ lastCall.op \in MarkLearnedOps
    /\ lastCall.word \in Terms
    /\ ~lastCall.wasLearned
    /\ variant # "mobile"
    /\ lastCall.source \in DOMAIN storage.progress
    /\ someLower(storage.progress[lastCall.source].learned, toLowerCase(lastCall.word))
    /\ storage.progress = progress

\* source S has a progress record in (prog, lw)
hasRecord(prog, lw, S) ==
    IF variant = "mobile" THEN S \in DOMAIN lw ELSE S \in DOMAIN prog

\* C23: ensureInitialized(S) creates an empty record only when S has none
\* and is a no-op otherwise.  Selecting a source that has a record leaves
\* the learned and skipped lists of every source as they were; init() after
\* a restart leaves them as they were stored; selecting a source without a
\* record creates an empty one; and initialising twice equals initialising
\* once.
C23_EnsureInitializedNoOp ==
    [][\A S \in SourceNames :
          /\ (lastCall'.op = "selectSource" /\ hasRecord(progress, learnedWords, S))
             => /\ hasRecord(progress', learnedWords', S)
                /\ learnedOf(S)' = learnedOf(S)
                /\ skippedOf(S)' = skippedOf(S)
          /\ (lastCall'.op = "init" /\ hasRecord(storage.progress, storage.learned, S))
             => /\ hasRecord(progress', learnedWords', S)
                /\ learnedOf(S)' = IF variant = "mobile" THEN storage.learned[S]
                                   ELSE storage.progress[S].learned
                /\ variant # "mobile" => skippedOf(S)' = storage.progress[S].skipped
          /\ (/\ lastCall'.op = "selectSource"
              /\ lastCall'.source = S
              /\ S \in DOMAIN sources
              /\ ~hasRecord(progress, learnedWords, S))
             => /\ hasRecord(progress', learnedWords', S)
                /\ learnedOf(S)' = <<>>
                /\ skippedOf(S)' = <<>>
          /\ initSourceProgress(initSourceProgress(progress, S), S)
                = initSourceProgress(progress, S)
          /\ initLearnedForSource(initLearnedForSource(learnedWords, S), S)
                = initLearnedForSource(learnedWords, S)]_vars

\* C23 witness: a source with a learned entry was selected again and still
\* has the entry.
C23_Witness ==
    /\ lastCall.op = "selectSource"
    /\ lastCall.source \in DOMAIN sources
    /\ lastCall.source = currentSource
    /\ learnedOf(lastCall.source) # <<>>

\* C24: selectNext never runs against a missing ProgressRecord: whenever
\* loadNextWord has been called for the current source, a record existed
\* for it (or was created first), so getNextUnlearnedWord did not throw on
\* a null record.
C24_RecordBeforeSelectNext ==
    lastSelect.called => lastSelect.word # TypeError

\* the learned lists kept for source S (progress[S].learned, learnedWords[S])
learnedLists(S) ==
    (IF S \in DOMAIN progress THEN {progress[S].learned} ELSE {})
    \cup (IF S \in DOMAIN learnedWords THEN {learnedWords[S]} ELSE {})

\* C25: for every source that exists, learnedCount(S) <= totalCount(S) and
\* every entry of learned(S) equals, case-insensitively, the term of some
\* word of the source; removing words and overwriting a source by an
\* import of the same name preserve this.
C25_LearnedWithinSource ==
    \A S \in DOMAIN sources : \A L \in learnedLists(S) :
        /\ Len(L) <= Len(sources[S])
        /\ \A i \in 1..Len(L) : someLower(sources[S], toLowerCase(L[i]))

(* ===================== app.js: loading a word ========================== *)
\* loadRandomWord() and searchWord(term) are async functions guarded by
\* isLoading.  `requests` holds the calls that have passed the guard and
\* await a response, `issued` counts the calls made (a retry included) and
\* appWord is the word rendered last.
MaxWordLoads == 4       \* loadRandomWord / searchWord run at most this often
SearchTerms == {"", "red"}
Outcomes == {"found", "notFound", "throws"}

WordNow == [isLoading |-> isLoading, loads |-> requests]

\* loadRandomWord() up to `await getRandomWord()`
loadRandomWord(st, call) ==
    IF st.isLoading THEN st
    ELSE [isLoading |-> TRUE,
          loads |-> st.loads \cup {[call |-> call, kind |-> "random", stage |-> "word"]}]

\* searchWord(searchTerm) up to `await Promise.all([...])`
searchWord(st, searchTerm, call) ==
    IF st.isLoading \/ searchTerm = "" THEN st
    ELSE [isLoading |-> TRUE,
          loads |-> st.loads \cup {[call |-> call, kind |-> "search", stage |-> "details"]}]

\* loadRandomWord() from the Promise.all response on.  Without a definition
\* it sets isLoading = false and evaluates `return loadRandomWord()`: the
\* inner call runs to its first await; then the finally block of the outer
\* call runs (isLoading = false), the inner call still pending.
randomDetails(st, req, outcome, call) ==
    LET done == [isLoading |-> FALSE, loads |-> st.loads \ {req}] IN
    IF outcome = "notFound"
    THEN [loadRandomWord(done, call) EXCEPT !.isLoading = FALSE]
    ELSE done

\* searchWord() from the Promise.all response on: every path ends with
\* isLoading = false
searchDetails(st, req, outcome) == [isLoading |-> FALSE, loads |-> st.loads \ {req}]

WordInit ==
    /\ PageIdle
    /\ LoadIdle
    /\ GestureIdle
    /\ files = NoFiles
    /\ response = NoResponse

WordFrame ==
    /\ UNCHANGED pageVars
    /\ UNCHANGED storeVars
    /\ UNCHANGED persistVars
    /\ UNCHANGED gestureVars
    /\ UNCHANGED <<related, seen>>

\* the page loads, the next-word button is pressed, or the card is swiped
LoadRandomWordStep ==
    /\ issued < MaxWordLoads
    /\ LET st == loadRandomWord(WordNow, issued + 1) IN
       /\ isLoading' = st.isLoading
       /\ requests' = st.loads
    /\ issued' = issued + 1
    /\ UNCHANGED appWord
    /\ WordFrame

\* the search form is submitted or a chip is clicked
SearchWordStep ==
    /\ issued < MaxWordLoads
    /\ \E term \in SearchTerms :
          LET st == searchWord(WordNow, term, issued + 1) IN
          /\ isLoading' = st.isLoading
          /\ requests' = st.loads
    /\ issued' = issued + 1
    /\ UNCHANGED appWord
    /\ WordFrame

\* `await getRandomWord()` resolves (it falls back to a common word on error)
GetRandomWordStep ==
    /\ \E req \in requests :
          /\ req.stage = "word"
          /\ requests' = awaitNext(requests, req, "details")
    /\ UNCHANGED <<isLoading, issued, appWord>>
    /\ WordFrame

\* `await Promise.all([...])` of a loadRandomWord call resolves
RandomDetailsStep ==
    /\ \E req \in requests, outcome \in Outcomes :
          /\ req.kind = "random" /\ req.stage = "details"
          /\ outcome = "notFound" => issued < MaxWordLoads
          /\ LET st == randomDetails(WordNow, req, outcome, issued + 1) IN
             /\ isLoading' = st.isLoading
             /\ requests' = st.loads
          /\ issued' = IF outcome = "notFound" THEN issued + 1 ELSE issued
          /\ appWord' = IF outcome = "found" THEN [text |-> "red", call |-> req.call]
                        ELSE appWord
    /\ WordFrame

\* `await Promise.all([...])` of a searchWord call resolves
SearchDetailsStep ==
    /\ \E req \in requests, outcome \in Outcomes :
          /\ req.kind = "search" /\ req.stage = "details"
          /\ LET st == searchDetails(WordNow, req, outcome) IN
             /\ isLoading' = st.isLoading
             /\ requests' = st.loads
          /\ appWord' = IF outcome = "found" THEN [text |-> "red", call |-> req.call]
                        ELSE appWord
    /\ UNCHANGED issued
    /\ WordFrame

WordNext ==
    \/ LoadRandomWordStep \/ SearchWordStep \/ GetRandomWordStep
    \/ RandomDetailsStep \/ SearchDetailsStep

WordSpec == WordInit /\ [][WordNext]_vars

\* C26: isLoading is true for the whole time a word load is in flight, so
\* at most one load runs at a time, also while loadRandomWord retries after
\* a word without a dictionary entry.
C26_OneLoadAtATime ==
    /\ requests # {} => isLoading
    /\ Cardinality(requests) <= 1

\* the terms that this step has added to the learned / skipped list of some
\* source, lower-cased
newlyLearned ==
    {toLowerCase(w) : w \in
        {w \in Terms : \E S \in DOMAIN progress' :
            /\ someLower(progress'[S].learned, toLowerCase(w))
            /\ ~someLower(learnedOf(S), toLowerCase(w))}}

newlySkipped ==
    {toLowerCase(w) : w \in
        {w \in Terms : \E S \in DOMAIN progress' :
            /\ someLower(progress'[S].skipped, toLowerCase(w))
            /\ ~someLower(skippedOf(S), toLowerCase(w))}}

\* C27: in the server-backed variant the timer callback of a swipe marks
\* no word other than the one that was displayed when the gesture ended
\* (learned after a left swipe, skipped after a right swipe), whatever
\* handlers ran during the 300 ms in between.
C27_SwipeMarksDisplayedWord ==
    [][(variant = "server" /\ lastCall'.op \in {"timerLearn", "timerSkip"})
       => /\ newlyLearned \subseteq
                (IF lastCall'.op = "timerLearn" THEN {toLowerCase(Head(swipedWords))} ELSE {})
          /\ newlySkipped \subseteq
                (IF lastCall'.op = "timerSkip" THEN {toLowerCase(Head(swipedWords))} ELSE {})]_vars

(* ================== the touch listeners of the card ==================== *)
\* setupSwipeGestures() of app-sources-mobile.js and initSwipeGesture() of
\* app-sources-server.js: touchstart, touchmove and touchend listeners over
\* the closure variables startX, currentX and isDragging.
TouchXs == {0, 150, 300}        \* e.touches[0].clientX

GestureNow == [startX |-> startX, currentX |-> currentX, isDragging |-> isDragging]

\* touchstart on the card outside a button or link
touchstart(g, x) == [g EXCEPT !.startX = x, !.isDragging = TRUE]

\* touchmove
touchmove(g, x) == IF ~g.isDragging THEN g ELSE [g EXCEPT !.currentX = x]

\* the branch touchend takes on diff = currentX - startX
swipeOf(g) ==
    LET diff == g.currentX - g.startX IN
    IF variant = "mobile"
    THEN IF diff < -80 THEN "learn" ELSE "none"
    ELSE IF diff < -100 THEN "learn" ELSE IF diff > 100 THEN "skip" ELSE "none"

\* the closure after touchend: app-sources-mobile.js ends with startX = 0;
\* currentX = 0, app-sources-server.js leaves both
touchend(g) ==
    IF ~g.isDragging THEN g
    ELSE IF variant = "mobile" THEN [startX |-> 0, currentX |-> 0, isDragging |-> FALSE]
    ELSE [g EXCEPT !.isDragging = FALSE]

TouchInit == ReloadInit /\ variant \in {"server", "mobile"}

\* a listener that leaves the closure g and touches nothing else
TouchOnly(g, op) ==
    /\ startX' = g.startX
    /\ currentX' = g.currentX
    /\ isDragging' = g.isDragging
    /\ lastCall' = Call(op, currentSource, currentWord)
    /\ UNCHANGED <<variant, booted, sources, progress, learnedWords, currentSource,
                   currentWord, screen, timers, lastSelect, selectorState, swipedWords>>
    /\ UNCHANGED storeVars
    /\ UNCHANGED persistVars
    /\ UNCHANGED loadVars

TouchStartStep ==
    /\ booted /\ variant \in {"server", "mobile"} /\ CardShown /\ ~isDragging
    /\ \E x \in TouchXs : TouchOnly(touchstart(GestureNow, x), "touchstart")

TouchMoveStep ==
    /\ booted /\ variant \in {"server", "mobile"} /\ isDragging
    /\ \E x \in TouchXs : TouchOnly(touchmove(GestureNow, x), "touchmove")

TouchEndStep ==
    /\ booted /\ variant \in {"server", "mobile"} /\ isDragging
    /\ LET g == touchend(GestureNow)
           kind == swipeOf(GestureNow)
           st == IF variant = "mobile" THEN swipeLeftMobile(Now) ELSE swipeServer(Now, kind)
       IN  IF kind = "none" THEN TouchOnly(g, "touchend")
           ELSE /\ CanSetTimer /\ currentWord # Null
                /\ Engine(st, Call("swipe", currentSource, currentWord))
                /\ swipedWords' = pending(st.timers, IF variant = "server"
                                                     THEN currentWord ELSE Null)
                /\ startX' = g.startX
                /\ currentX' = g.currentX
                /\ isDragging' = g.isDragging

TouchNext ==
    \/ InitServerStep \/ InitMobileStep
    \/ TouchStartStep \/ TouchMoveStep \/ TouchEndStep
    \/ TimerSequentialStep \/ TimerMobileStep
    \/ LearnedBtnStep \/ MarkLearnedBtnStep

TouchSpec == TouchInit /\ [][TouchNext]_vars

\* C28: a touch that starts and ends without any movement (touchstart
\* followed directly by touchend) marks no word learned or skipped, sets no
\* timer that would, and leaves the displayed word, at any position and in
\* any state.
C28_TapDoesNothing ==
    [][(lastCall.op = "touchstart" /\ isDragging /\ ~isDragging')
       => /\ progress' = progress
          /\ learnedWords' = learnedWords
          /\ currentWord' = currentWord
          /\ timers' = timers]_vars

\* C29: when saveSourceToServer returns false during addWordToSource,
\* deleteWordFromSource or importBulkJson, the in-memory word list of the
\* edited source (and with it totalWords) is the same as before the
\* operation.
C29_FailedSaveRollsBack ==
    [][(/\ lastCall'.saveFailed
        /\ lastCall'.op \in {"addWordToSource", "deleteWordFromSource", "importBulkJson"})
       => sources' = sources]_vars

\* C30: saving a source under one name never changes the content stored
\* for a source with a different name: after a successful POST /api/sources
\* with name A, every source that was listed under a name other than A is
\* still listed with the same file, words and link.
C30_SaveLeavesOtherNames ==
    [][(response'.op = "post" /\ response'.success)
       => \A e \in getSources(files).response.sources :
             e.name # response'.name => e \in getSources(files').response.sources]_vars

====
